---- MODULE Spec2Model ----
(***************************************************************************)
(* A model of the grid resource manager of mcp-ag-grid:                    *)
(*   GridManager       (src/src/examples/demo-scenarios.ts, lines 546-1024)*)
(*   WebSocketManager  (src/src/web-server/server.ts, lines 193-370)       *)
(* and of the rendering surface (a puppeteer page running web/grid.html)   *)
(* as far as the manager drives it.                                        *)
(*                                                                         *)
(* Execution model.  The manager runs on one JavaScript thread: code       *)
(* between two `await`s is atomic, and callers interleave only at awaits.  *)
(* Every await of the manager is a round trip to the browser (or the file  *)
(* system).  An operation in flight is a task whose pc names the await it  *)
(* is suspended at; the step for that pc performs the awaited call on the  *)
(* surface, with the outcome the surface can produce in its current state, *)
(* and then runs the continuation up to the next await or the return.      *)
(* Responses reach the manager in the order the browser produced them, so  *)
(* taking the call's effect and its continuation in one step loses no      *)
(* interleaving: the steps in between would touch either only the browser  *)
(* or only the manager.                                                    *)
(***************************************************************************)
EXTENDS Integers, Sequences, FiniteSets, TLC

(***************************************************************************)
(* Bounds of the model.                                                    *)
(***************************************************************************)
MaxClock == 2          \* Date.now() ranges over 1..MaxClock
MaxCalls == 4          \* number of operations issued in one behaviour
MaxSuffix == 1         \* Math.random().toString(36).substr(2, 9) ranges over 1..MaxSuffix
MaxRequests == 1       \* request_grid_data messages one observer sends
MaxRows == 3           \* rows of the freely chosen datasets of the summary reader
MaxSortIndex == 2      \* sort indices of the freely chosen column states: 0..MaxSortIndex

Tasks == {"t1", "t2"}  \* callers that may have an operation in flight
Suffixes == 1..MaxSuffix

(***************************************************************************)
(* Values.                                                                 *)
(***************************************************************************)
Null == [null |-> TRUE]                  \* JavaScript null / undefined
NoId == <<0, 0>>                         \* no grid identifier
NoField == "#undefined"                  \* a column descriptor without `field`

\* generateGridId: `grid_${Date.now()}_${Math.random()...}`, as the pair of
\* its two variable parts.
generateGridId(ms, rnd) == <<ms, rnd>>

GridIds == {generateGridId(ms, rnd) : ms \in 1..MaxClock, rnd \in Suffixes}
UnknownId == <<0, 1>>                    \* an identifier no createGrid can mint
AnyId == GridIds \cup {UnknownId}

Col(f) == [field |-> f]
ConfigA == [columnDefs |-> <<Col("x")>>, rowData |-> <<1>>]
ConfigB == [columnDefs |-> <<Col("x"), Col("y")>>, rowData |-> <<1, 2>>]
ConfigBad == [columnDefs |-> <<Col(NoField)>>, rowData |-> <<>>]
ConfigNoColumns == [columnDefs |-> <<>>, rowData |-> <<1>>]
ConfigSameField == [columnDefs |-> <<Col("x"), Col("x")>>, rowData |-> <<1>>]
Configs == {ConfigA, ConfigB, ConfigBad}
\* Configs that pass the schema although they describe no usable grid; a
\* caller passes one of them in its last call only.
DegenerateConfigs == {ConfigNoColumns, ConfigSameField}
EmptyConfig == [columnDefs |-> <<>>, rowData |-> <<>>]
RowDataSets == {<<2>>, <<1, 2, 3>>}      \* arguments of updateGridData

\* ColumnDefSchema / GridConfigSchema (zod): every column descriptor has a
\* string `field`; nothing else about the columns is checked.
ColumnDefSchemaParse(col) == col.field # NoField
GridConfigSchemaParse_lax(config) == TRUE
GridConfigSchemaParse(config) ==
    \A i \in 1..Len(config.columnDefs) : ColumnDefSchemaParse(config.columnDefs[i])

ExportFormats == {"csv", "excel"}
ExportFormatSchemaParse_lax(format) == TRUE
ExportFormatSchemaParse(format) == format \in ExportFormats

(***************************************************************************)
(* Results of operations: a value, or a GridManagerError.                  *)
(***************************************************************************)
Void == [kind |-> "void"]
NoResult == [status |-> "none", code |-> "", gridId |-> NoId, cause |-> FALSE, value |-> Void]
Ok(v) == [status |-> "ok", code |-> "", gridId |-> NoId, cause |-> FALSE, value |-> v]
\* new GridManagerError(message, code, gridId?, cause?)
GridManagerError(code, gridId, cause) ==
    [status |-> "error", code |-> code, gridId |-> gridId, cause |-> cause, value |-> Void]

VARIABLES
    now,               \* the wall clock (Date.now(), new Date())
    calls,             \* number of operations issued so far
    issued,            \* identifiers minted by generateGridId so far
    browser,           \* GridManager.browser: 0 (null) or an engine
    engines,           \* the engines launched so far: "live" or "closed"
    isInitialized,     \* GridManager.isInitialized
    webSocketManager,  \* GridManager.webSocketManager is attached
    grids,             \* the keys of GridManager.grids, in insertion order
    instances,         \* the GridInstance objects ever stored, by id
    pages,             \* the pages opened so far (the rendering surfaces)
    gridStates,        \* WebSocketManager.gridStates
    emitted,           \* what WebSocketManager sent with io.emit, in order
    sockets,           \* the observers' connections to the sink (socket.io)
    analysis,          \* the dataset given to the summary reader, and its statistics
    process,           \* the server process: handleShutdown's position, its exit
    tasks,             \* the operations in flight, one per caller
    returned           \* the operation that returned last, with its result

mgrVars == <<browser, isInitialized, webSocketManager, grids, instances>>
sinkVars == <<gridStates, emitted, sockets>>
vars == <<now, calls, issued, browser, engines, isInitialized, webSocketManager,
          grids, instances, pages, gridStates, emitted, sockets, process,
          analysis, tasks, returned>>

IdleTask ==
    [op |-> "none", pc |-> "idle", gridId |-> NoId, config |-> EmptyConfig,
     rowData |-> <<>>, method |-> "", param |-> Null, format |-> "",
     page |-> 0, engine |-> 0, gridIds |-> <<>>, ids |-> <<>>,
     result |-> NoResult]

\* The observers (browser tabs of the dashboard or the viewer) and a socket
\* that has not connected.  joinedAt is the length of the log of broadcasts
\* when the socket connected; requests counts its request_grid_data messages.
Observers == {"o1"}
NoSocket == [connected |-> FALSE, inbox |-> <<>>, joinedAt |-> 0, requests |-> 0]

\* The server process (src/server.ts) while it serves: isShuttingDown is
\* false and it has not exited.  `cleanup` records, at the exit, how far
\* gridManager.cleanup() had got.
NoExit == -1
Running ==
    [pc |-> "running", isShuttingDown |-> FALSE, exitCode |-> NoExit,
     cleanup |-> "not called"]

\* No dataset has been given to the summary reader.
NotComputed == [totalRows |-> -1]
NoAnalysis == [rowData |-> <<>>, columnDefs |-> <<>>, stats |-> NotComputed]

Init ==
    /\ now = 1
    /\ calls = 0
    /\ issued = {}
    /\ browser = 0
    /\ engines = <<>>
    /\ isInitialized = FALSE
    /\ webSocketManager = FALSE
    /\ grids = <<>>
    /\ instances = <<>>
    /\ pages = <<>>
    /\ gridStates = <<>>
    /\ emitted = <<>>
    /\ sockets = [o \in Observers |-> NoSocket]
    /\ process = Running
    /\ analysis = NoAnalysis
    /\ tasks = [t \in Tasks |-> IdleTask]
    /\ returned = [t |-> "", call |-> IdleTask]

(***************************************************************************)
(* Helpers.                                                                *)
(***************************************************************************)
Range(s) == {s[i] : i \in 1..Len(s)}
Put(f, k, v) == [x \in (DOMAIN f) \cup {k} |-> IF x = k THEN v ELSE f[x]]
Drop(f, k) == [x \in (DOMAIN f) \ {k} |-> f[x]]
Remove(s, k) == SelectSeq(s, LAMBDA x : x # k)

\* A caller may issue an operation when it has none in flight.
CanStart(t) == tasks[t].pc = "idle" /\ calls < MaxCalls
Begin(t, op) == [IdleTask EXCEPT !.op = op]
Done(task, result) == [task EXCEPT !.pc = "done", !.result = result]

\* The caller's operation goes on as `task`: suspended at its next await,
\* or returned to the caller.
Resume(t, task) ==
    IF task.pc = "done"
    THEN /\ tasks' = [tasks EXCEPT ![t] = IdleTask]
         /\ returned' = [t |-> t, call |-> task]
    ELSE /\ tasks' = [tasks EXCEPT ![t] = task]
         /\ UNCHANGED returned

\* The outcomes of a call on a page: it can succeed only while the page is
\* open, and it can fail at any time (crash, protocol error, timeout).
PageOpen_afterClose(p) == TRUE
PageOpen(p) == pages[p].open
CallOutcomes(possible) == IF possible THEN {TRUE, FALSE} ELSE {FALSE}

\* The clock advances on its own.
Tick ==
    /\ now < MaxClock
    /\ now' = now + 1
    /\ UNCHANGED <<calls, issued, engines, pages, tasks, returned>>
    /\ UNCHANGED mgrVars
    /\ UNCHANGED sinkVars
    /\ UNCHANGED <<process, analysis>>

(***************************************************************************)
(* WebSocketManager (the broadcast sink).                                  *)
(***************************************************************************)
Event(channel, type, gridId) == [channel |-> channel, type |-> type, gridId |-> gridId]

\* emitGridEvent: io.emit('grid_event', event)
emitGridEvent(log, type, gridId) == Append(log, Event("grid_event", type, gridId))

\* onGridCreated: store a snapshot, emit grid_created, broadcast the snapshot.
\* The snapshot's config is the caller's config object itself (configRef names
\* the instance that holds the same object).
onGridCreated_states(states, gridId, rowData, ts) ==
    Put(states, gridId,
        [id |-> gridId, configRef |-> gridId, data |-> rowData, filters |-> Null,
         sorting |-> Null, createdAt |-> ts, lastUpdated |-> ts])
onGridCreated_emitted(log, gridId) ==
    Append(emitGridEvent(log, "grid_created", gridId),
           Event("grid_state_updated", "", gridId))

\* updateGridState: merge `updates` over the existing snapshot, or over the
\* defaults when there is none; broadcast the result.
updateGridState_states_replace(states, gridId, field, value, ts) ==
    LET base == [id |-> gridId, configRef |-> NoId, data |-> <<>>,
                 filters |-> Null, sorting |-> Null, createdAt |-> ts,
                 lastUpdated |-> ts]
        merged == CASE field = "data" -> [base EXCEPT !.data = value]
                    [] field = "filters" -> [base EXCEPT !.filters = value]
                    [] field = "sorting" -> [base EXCEPT !.sorting = value]
    IN  Put(states, gridId, merged)
updateGridState_states(states, gridId, field, value, ts) ==
    LET base == IF gridId \in DOMAIN states THEN states[gridId]
                ELSE [id |-> gridId, configRef |-> NoId, data |-> <<>>,
                      filters |-> Null, sorting |-> Null, createdAt |-> ts,
                      lastUpdated |-> ts]
        merged == CASE field = "data" -> [base EXCEPT !.data = value]
                    [] field = "filters" -> [base EXCEPT !.filters = value]
                    [] field = "sorting" -> [base EXCEPT !.sorting = value]
    IN  Put(states, gridId, [merged EXCEPT !.lastUpdated = ts])
updateGridState_emitted(log, gridId) == Append(log, Event("grid_state_updated", "", gridId))

\* removeGrid: delete the snapshot, emit grid_removed and grid_destroyed.
removeGrid_states_all(states, gridId) == <<>>
removeGrid_states(states, gridId) == Drop(states, gridId)
removeGrid_emitted(log, gridId) ==
    emitGridEvent(Append(log, Event("grid_removed", "", gridId)), "grid_destroyed", gridId)

\* socket.io: io.emit(...) reaches every socket connected when it is called.
\* `after` is the log `before` with the broadcasts of one step appended.
Deliver(socks, before, after) ==
    [o \in DOMAIN socks |->
        IF socks[o].connected
        THEN [socks[o] EXCEPT
                 !.inbox = @ \o SubSeq(after, Len(before) + 1, Len(after))]
        ELSE socks[o]]

\* Array.from(this.gridStates.values()): the snapshots held, one per key.
getAllGridStates(states) == {states[id] : id \in DOMAIN states}

\* io.on('connection', socket => socket.emit('grid_states', ...)): the first
\* thing a new socket is sent.
greeting_replay(states, log) ==
    <<[channel |-> "grid_states", states |-> getAllGridStates(states)]>> \o log
greeting(states, log) ==
    <<[channel |-> "grid_states", states |-> getAllGridStates(states)]>>

Connection(o) ==
    /\ ~sockets[o].connected
    /\ sockets' = [sockets EXCEPT ![o] =
                      [connected |-> TRUE, inbox |-> greeting(gridStates, emitted),
                       joinedAt |-> Len(emitted), requests |-> 0]]
    /\ UNCHANGED <<now, calls, issued, engines, pages, gridStates, emitted,
                   tasks, returned>>
    /\ UNCHANGED mgrVars
    /\ UNCHANGED <<process, analysis>>

\* socket.on('request_grid_data', gridId => ...): the snapshot of one grid,
\* sent to the asking socket alone, when the sink holds one.
RequestGridData(o, gridId) ==
    /\ sockets[o].connected
    /\ sockets[o].requests < MaxRequests
    /\ sockets' = [sockets EXCEPT ![o] =
                      [@ EXCEPT !.requests = @ + 1,
                                !.inbox = IF gridId \in DOMAIN gridStates
                                          THEN Append(@, [channel |-> "grid_data",
                                                         state |-> gridStates[gridId]])
                                          ELSE @]]
    /\ UNCHANGED <<now, calls, issued, engines, pages, gridStates, emitted,
                   tasks, returned>>
    /\ UNCHANGED mgrVars
    /\ UNCHANGED <<process, analysis>>

(***************************************************************************)
(* GridManager: the registry.                                              *)
(***************************************************************************)
HasGrid(gridId) == gridId \in Range(grids)

\* getGridInstance: the entry, or GRID_NOT_FOUND / GRID_DESTROYED.
getGridInstance_tombstone(gridId) ==
    IF gridId \in DOMAIN instances /\ instances[gridId].isDestroyed
    THEN GridManagerError("GRID_DESTROYED", gridId, FALSE)
    ELSE IF ~HasGrid(gridId) THEN GridManagerError("GRID_NOT_FOUND", gridId, FALSE)
         ELSE Ok(Void)
getGridInstance_wrongCode(gridId) ==
    IF ~HasGrid(gridId) THEN GridManagerError("GRID_DESTROYED", gridId, FALSE)
    ELSE IF instances[gridId].isDestroyed
         THEN GridManagerError("GRID_NOT_FOUND", gridId, FALSE)
         ELSE Ok(Void)
getGridInstance(gridId) ==
    IF ~HasGrid(gridId) THEN GridManagerError("GRID_NOT_FOUND", gridId, FALSE)
    ELSE IF instances[gridId].isDestroyed
         THEN GridManagerError("GRID_DESTROYED", gridId, FALSE)
         ELSE Ok(Void)

\* getActiveGrids: the keys whose instance is not destroyed.
getActiveGrids == SelectSeq(grids, LAMBDA id : ~instances[id].isDestroyed)

\* getGridInfo: the instance without its page.
getGridInfo(gridId) ==
    IF getGridInstance(gridId).status = "error" THEN getGridInstance(gridId)
    ELSE Ok([kind |-> "info", id |-> instances[gridId].id,
             config |-> instances[gridId].config,
             createdAt |-> instances[gridId].createdAt,
             lastUpdated |-> instances[gridId].lastUpdated,
             isDestroyed |-> instances[gridId].isDestroyed])

\* setWebSocketManager
SetWebSocketManager ==
    /\ ~webSocketManager
    /\ webSocketManager' = TRUE
    /\ UNCHANGED <<now, calls, issued, browser, engines, isInitialized, grids,
                   instances, pages, tasks, returned>>
    /\ UNCHANGED sinkVars
    /\ UNCHANGED <<process, analysis>>

(***************************************************************************)
(* initialize                                                              *)
(***************************************************************************)
InitializeStart_relaunch(t) ==
    /\ CanStart(t)
    /\ calls' = calls + 1
    /\ Resume(t, [Begin(t, "initialize") EXCEPT !.pc = "launch"])
    /\ UNCHANGED <<now, issued, engines, pages>>
    /\ UNCHANGED mgrVars
    /\ UNCHANGED sinkVars
    /\ UNCHANGED <<process, analysis>>
InitializeStart(t) ==
    /\ CanStart(t)
    /\ calls' = calls + 1
    /\ Resume(t,
                    IF isInitialized THEN Done(Begin(t, "initialize"), Ok(Void))
                    ELSE [Begin(t, "initialize") EXCEPT !.pc = "launch"])
    /\ UNCHANGED <<now, issued, engines, pages>>
    /\ UNCHANGED mgrVars
    /\ UNCHANGED sinkVars
    /\ UNCHANGED <<process, analysis>>

\* await puppeteer.launch(...)
InitializeLaunch(t) ==
    /\ tasks[t].op = "initialize" /\ tasks[t].pc = "launch"
    /\ \E ok \in BOOLEAN :
        IF ok
        THEN /\ engines' = Append(engines, "live")
             /\ browser' = Len(engines) + 1
             /\ isInitialized' = TRUE
             /\ Resume(t, Done(tasks[t], Ok(Void)))
        ELSE /\ Resume(t,
                            Done(tasks[t], GridManagerError("BROWSER_INIT_FAILED", NoId, TRUE)))
             /\ UNCHANGED <<engines, browser, isInitialized>>
    /\ UNCHANGED <<now, calls, issued, webSocketManager, grids, instances, pages>>
    /\ UNCHANGED sinkVars
    /\ UNCHANGED <<process, analysis>>

(***************************************************************************)
(* The rendering surface: one page per grid, running web/grid.html.        *)
(***************************************************************************)
\* browser.newPage(): a blank page of the engine.
NewPage(engine) ==
    [engine |-> engine, open |-> TRUE, loaded |-> FALSE, api |-> "none",
     rowData |-> <<>>, filterModel |-> Null, columnState |-> <<>>, closes |-> 0]

\* window.createAGGrid(config): the grid over config's columns and rows;
\* onGridReady stores its API in window.gridApi.
\* AG Grid gives a column its field as colId, and a column whose field is
\* already taken the field with the suffix _1.
colIdOf(columnDefs, i) ==
    IF \E j \in 1..(i - 1) : columnDefs[j].field = columnDefs[i].field
    THEN CASE columnDefs[i].field = "x" -> "x_1"
           [] columnDefs[i].field = "y" -> "y_1"
           [] OTHER -> columnDefs[i].field
    ELSE columnDefs[i].field

createAGGrid(page, config) ==
    [page EXCEPT !.api = "live",
                 !.rowData = config.rowData,
                 !.filterModel = Null,
                 !.columnState = [i \in 1..Len(config.columnDefs) |->
                                    [colId |-> colIdOf(config.columnDefs, i),
                                     sort |-> "none", sortIndex |-> 0]]]

(***************************************************************************)
(* createGrid                                                              *)
(***************************************************************************)
CreateFailed(task) ==
    Done(task, GridManagerError("GRID_CREATION_FAILED", task.gridId, TRUE))

\* `!this.isInitialized || !this.browser`: the test createGrid opens with.
NotInitialized_handleOnly(flag, handle) == handle = 0
NotInitialized(flag, handle) == ~flag \/ handle = 0

\* The synchronous head of createGrid: the initialisation check, the schema
\* validation, generateGridId(), and the call of browser.newPage().  The draw
\* of Math.random() is taken never to repeat a suffix within one millisecond.
CreateGridStart(t, config, rnd) ==
    /\ CanStart(t)
    /\ calls' = calls + 1
    /\ IF NotInitialized(isInitialized, browser)
       THEN /\ Resume(t,
                           Done([Begin(t, "createGrid") EXCEPT !.config = config],
                                GridManagerError("NOT_INITIALIZED", NoId, FALSE)))
            /\ UNCHANGED issued
       ELSE IF ~GridConfigSchemaParse(config)
       THEN /\ Resume(t,
                           Done([Begin(t, "createGrid") EXCEPT !.config = config],
                                GridManagerError("INVALID_CONFIG", NoId, TRUE)))
            /\ UNCHANGED issued
       ELSE /\ generateGridId(now, rnd) \notin issued
            /\ issued' = issued \cup {generateGridId(now, rnd)}
            /\ Resume(t,
                           [Begin(t, "createGrid") EXCEPT
                               !.pc = "newPage", !.config = config,
                               !.gridId = generateGridId(now, rnd), !.engine = browser])
    /\ UNCHANGED <<now, engines, pages>>
    /\ UNCHANGED mgrVars
    /\ UNCHANGED sinkVars
    /\ UNCHANGED <<process, analysis>>

\* await this.browser.newPage()
CreateNewPage(t) ==
    /\ tasks[t].op = "createGrid" /\ tasks[t].pc = "newPage"
    /\ \E ok \in CallOutcomes(engines[tasks[t].engine] = "live") :
        IF ok
        THEN /\ pages' = Append(pages, NewPage(tasks[t].engine))
             /\ Resume(t,
                            [tasks[t] EXCEPT !.pc = "setViewport", !.page = Len(pages) + 1])
        ELSE /\ Resume(t, CreateFailed(tasks[t]))
             /\ UNCHANGED pages
    /\ UNCHANGED <<now, calls, issued, engines>>
    /\ UNCHANGED mgrVars
    /\ UNCHANGED sinkVars
    /\ UNCHANGED <<process, analysis>>

\* await page.setViewport(this.options.viewport)
CreateSetViewport(t) ==
    /\ tasks[t].op = "createGrid" /\ tasks[t].pc = "setViewport"
    /\ \E ok \in CallOutcomes(PageOpen(tasks[t].page)) :
        Resume(t,
                    IF ok THEN [tasks[t] EXCEPT !.pc = "loadGridHtml"] ELSE CreateFailed(tasks[t]))
    /\ UNCHANGED <<now, calls, issued, engines, pages>>
    /\ UNCHANGED mgrVars
    /\ UNCHANGED sinkVars
    /\ UNCHANGED <<process, analysis>>

\* await this.loadGridHtml(): readFile; HTML_LOAD_FAILED is caught by
\* createGrid's own handler like every other failure.
CreateLoadGridHtml(t) ==
    /\ tasks[t].op = "createGrid" /\ tasks[t].pc = "loadGridHtml"
    /\ \E ok \in BOOLEAN :
        Resume(t,
                    IF ok THEN [tasks[t] EXCEPT !.pc = "setContent"] ELSE CreateFailed(tasks[t]))
    /\ UNCHANGED <<now, calls, issued, engines, pages>>
    /\ UNCHANGED mgrVars
    /\ UNCHANGED sinkVars
    /\ UNCHANGED <<process, analysis>>

\* await page.setContent(htmlContent, { waitUntil: 'networkidle0' })
CreateSetContent(t) ==
    /\ tasks[t].op = "createGrid" /\ tasks[t].pc = "setContent"
    /\ \E ok \in CallOutcomes(PageOpen(tasks[t].page)) :
        IF ok
        THEN /\ pages' = [pages EXCEPT ![tasks[t].page].loaded = TRUE]
             /\ Resume(t, [tasks[t] EXCEPT !.pc = "waitForFunction"])
        ELSE /\ Resume(t, CreateFailed(tasks[t]))
             /\ UNCHANGED pages
    /\ UNCHANGED <<now, calls, issued, engines>>
    /\ UNCHANGED mgrVars
    /\ UNCHANGED sinkVars
    /\ UNCHANGED <<process, analysis>>

\* await page.waitForFunction(() => window.createAGGrid !== undefined, 10 s)
CreateWaitForFunction(t) ==
    /\ tasks[t].op = "createGrid" /\ tasks[t].pc = "waitForFunction"
    /\ \E ok \in CallOutcomes(PageOpen(tasks[t].page) /\ pages[tasks[t].page].loaded) :
        Resume(t,
                    IF ok THEN [tasks[t] EXCEPT !.pc = "createAGGrid"] ELSE CreateFailed(tasks[t]))
    /\ UNCHANGED <<now, calls, issued, engines, pages>>
    /\ UNCHANGED mgrVars
    /\ UNCHANGED sinkVars
    /\ UNCHANGED <<process, analysis>>

\* The GridInstance createGrid stores (lines 657-664).
newGridInstance_noRows(id, p, config, ts) ==
    [id |-> id, page |-> p, config |-> [config EXCEPT !.rowData = <<>>],
     createdAt |-> ts, lastUpdated |-> ts, isDestroyed |-> FALSE]
newGridInstance(id, p, config, ts) ==
    [id |-> id, page |-> p, config |-> config, createdAt |-> ts,
     lastUpdated |-> ts, isDestroyed |-> FALSE]

\* `if (!result.success) throw` (lines 652-654): what the in-page
\* createAGGrid reported decides whether the grid is stored.
createConfirmed_unchecked(outcome) == outcome # "throws"
createConfirmed(outcome) == outcome = "success"

\* await page.evaluate(config => window.createAGGrid(config), config), then
\* the check of result.success, this.grids.set and the sink notification.
CreateEvaluate(t) ==
    /\ tasks[t].op = "createGrid" /\ tasks[t].pc = "createAGGrid"
    /\ LET p == tasks[t].page
           id == tasks[t].gridId
           config == tasks[t].config
       IN \E outcome \in (IF PageOpen(p) /\ pages[p].loaded
                          THEN {"success", "unsuccessful", "throws"}
                          ELSE {"throws"}) :
            /\ pages' = IF outcome = "success"
                        THEN [pages EXCEPT ![p] = createAGGrid(@, config)]
                        ELSE pages
            /\ IF createConfirmed(outcome)
               THEN /\ instances' = Put(instances, id, newGridInstance(id, p, config, now))
                    /\ grids' = IF HasGrid(id) THEN grids ELSE Append(grids, id)
                    /\ gridStates' = IF webSocketManager
                                     THEN onGridCreated_states(gridStates, id,
                                                               config.rowData, now)
                                     ELSE gridStates
                    /\ emitted' = IF webSocketManager
                                  THEN onGridCreated_emitted(emitted, id)
                                  ELSE emitted
                    /\ Resume(t, Done(tasks[t], Ok([kind |-> "id", id |-> id])))
               ELSE /\ Resume(t, CreateFailed(tasks[t]))
                    /\ UNCHANGED <<instances, grids, gridStates, emitted>>
    /\ UNCHANGED <<now, calls, issued, engines, browser, isInitialized, webSocketManager>>
    /\ sockets' = Deliver(sockets, emitted, emitted')
    /\ UNCHANGED <<process, analysis>>

(***************************************************************************)
(* The grid API of a page (window.gridApi), as far as the manager and its  *)
(* callers use it.                                                         *)
(***************************************************************************)
FilterOne == [kind |-> "filter", values |-> {1}]
SortX == [kind |-> "columnState", state |-> <<[colId |-> "x", sort |-> "desc"]>>]
\* The arguments ('rowData', rows) of gridApi.setGridOption.
RowsThree == [kind |-> "rowData", rows |-> <<3>>]
ExecInputs == {<<"setFilterModel", FilterOne>>, <<"setFilterModel", Null>>,
               <<"applyColumnState", SortX>>, <<"getDisplayedRowCount", Null>>,
               <<"setGridOption", RowsThree>>, <<"noSuchMethod", Null>>}
GridApiMethods == {"setFilterModel", "applyColumnState", "getDisplayedRowCount",
                   "setGridOption"}

\* The rows that pass the page's filter.
Displayed(page) ==
    IF page.filterModel = Null THEN page.rowData
    ELSE SelectSeq(page.rowData, LAMBDA r : r \in page.filterModel.values)

\* gridApi.applyColumnState({state}): the named columns take the given sort.
applyColumnState(columnState, param) ==
    [i \in 1..Len(columnState) |->
        IF \E j \in 1..Len(param.state) : param.state[j].colId = columnState[i].colId
        THEN LET j == CHOOSE k \in 1..Len(param.state) :
                        param.state[k].colId = columnState[i].colId
             IN [columnState[i] EXCEPT !.sort = param.state[j].sort, !.sortIndex = j - 1]
        ELSE columnState[i]]

\* apiMethod.apply(window.gridApi, params) on a live grid.
gridApiPage(page, method, param) ==
    CASE method = "setFilterModel" -> [page EXCEPT !.filterModel = param]
      [] method = "applyColumnState" ->
            [page EXCEPT !.columnState = applyColumnState(@, param)]
      [] method = "setGridOption" -> [page EXCEPT !.rowData = param.rows]
      [] OTHER -> page
gridApiValue(page, method, param) ==
    CASE method = "applyColumnState" -> [kind |-> "boolean", v |-> TRUE]
      [] method = "getDisplayedRowCount" -> [kind |-> "number", v |-> Len(Displayed(page))]
      [] OTHER -> Void

\* Whether a call on the page can come back without throwing: the page is
\* open and window.gridApi is set.  A grid API that was destroyed still
\* answers (AG Grid 33 warns and returns undefined).
ApiAvailable(p) == PageOpen(p) /\ pages[p].api # "none"
ApiLive(p) == PageOpen(p) /\ pages[p].api = "live"

(***************************************************************************)
(* updateGridData                                                          *)
(***************************************************************************)
UpdateGridDataStart(t, gridId, rowData) ==
    /\ CanStart(t)
    /\ calls' = calls + 1
    /\ LET task == [Begin(t, "updateGridData") EXCEPT !.gridId = gridId, !.rowData = rowData]
       IN Resume(t,
            IF getGridInstance(gridId).status = "error"
            THEN Done(task, getGridInstance(gridId))
            ELSE [task EXCEPT !.pc = "evaluate", !.page = instances[gridId].page])
    /\ UNCHANGED <<now, issued, engines, pages>>
    /\ UNCHANGED mgrVars
    /\ UNCHANGED sinkVars
    /\ UNCHANGED <<process, analysis>>

\* window.updateGridData(newData): gridApi.setGridOption('rowData', newData).
updateGridData_append(page, newData) == [page EXCEPT !.rowData = @ \o newData]
updateGridData(page, newData) == [page EXCEPT !.rowData = newData]

\* updateGridData's catch (lines 710-717).
UpdateFailed_unwrapped(task) ==
    Done(task, GridManagerError("EVALUATE_ERROR", NoId, TRUE))
UpdateFailed(task) ==
    Done(task, GridManagerError("UPDATE_DATA_FAILED", task.gridId, TRUE))

\* await grid.page.evaluate(newData => window.updateGridData(newData), rowData),
\* then the stored config, lastUpdated and the sink notification.
UpdateEvaluate(t) ==
    /\ tasks[t].op = "updateGridData" /\ tasks[t].pc = "evaluate"
    /\ LET p == tasks[t].page
           id == tasks[t].gridId
           rowData == tasks[t].rowData
       IN \E ok \in CallOutcomes(ApiAvailable(p)) :
            IF ok
            THEN /\ pages' = IF pages[p].api = "live"
                             THEN [pages EXCEPT ![p] = updateGridData(@, rowData)]
                             ELSE pages
                 /\ instances' = [instances EXCEPT ![id].config.rowData = rowData,
                                                   ![id].lastUpdated = now]
                 /\ gridStates' = IF webSocketManager
                                  THEN updateGridState_states(gridStates, id, "data", rowData, now)
                                  ELSE gridStates
                 /\ emitted' = IF webSocketManager
                               THEN emitGridEvent(updateGridState_emitted(emitted, id),
                                                  "grid_updated", id)
                               ELSE emitted
                 /\ Resume(t, Done(tasks[t], Ok(Void)))
            ELSE /\ Resume(t, UpdateFailed(tasks[t]))
                 /\ UNCHANGED <<pages, instances, gridStates, emitted>>
    /\ UNCHANGED <<now, calls, issued, engines, browser, isInitialized, webSocketManager, grids>>
    /\ sockets' = Deliver(sockets, emitted, emitted')
    /\ UNCHANGED <<process, analysis>>

(***************************************************************************)
(* executeGridMethod                                                       *)
(***************************************************************************)
ExecuteGridMethodStart(t, gridId, method, param) ==
    /\ CanStart(t)
    /\ calls' = calls + 1
    /\ LET task == [Begin(t, "executeGridMethod") EXCEPT
                        !.gridId = gridId, !.method = method, !.param = param]
       IN Resume(t,
            IF getGridInstance(gridId).status = "error"
            THEN Done(task, getGridInstance(gridId))
            ELSE [task EXCEPT !.pc = "evaluate", !.page = instances[gridId].page])
    /\ UNCHANGED <<now, issued, engines, pages>>
    /\ UNCHANGED mgrVars
    /\ UNCHANGED sinkVars
    /\ UNCHANGED <<process, analysis>>

\* executeGridMethod's catch (lines 763-770).
MethodFailed_raw(task) ==
    Done(task, [GridManagerError("", NoId, FALSE) EXCEPT !.status = "raw"])
MethodFailed(task) ==
    Done(task, GridManagerError("METHOD_EXECUTION_FAILED", task.gridId, TRUE))

\* The sink notification a successful call is followed by (lines 749-758):
\* `method === 'setFilterModel' && params && params[0]`, else
\* `method === 'applyColumnState' && params && params[0]`.
notification_anyArgument(method, param) ==
    CASE method = "setFilterModel" -> "filtered"
      [] method = "applyColumnState" -> "sorted"
      [] OTHER -> "none"
notification(method, param) ==
    CASE method = "setFilterModel" /\ param # Null -> "filtered"
      [] method = "applyColumnState" /\ param # Null -> "sorted"
      [] OTHER -> "none"

\* await grid.page.evaluate(... apiMethod.apply(window.gridApi, params) ...),
\* then the choice of the sink notification.
ExecuteEvaluate(t) ==
    /\ tasks[t].op = "executeGridMethod" /\ tasks[t].pc = "evaluate"
    /\ LET p == tasks[t].page
           id == tasks[t].gridId
           method == tasks[t].method
           param == tasks[t].param
           value == IF pages[p].api = "live" THEN gridApiValue(pages[p], method, param)
                    ELSE Void
       IN \E ok \in CallOutcomes(ApiAvailable(p) /\ method \in GridApiMethods) :
            IF ok
            THEN /\ pages' = IF pages[p].api = "live"
                             THEN [pages EXCEPT ![p] = gridApiPage(@, method, param)]
                             ELSE pages
                 /\ IF webSocketManager /\ notification(method, param) = "filtered"
                    THEN /\ Resume(t,
                                        [tasks[t] EXCEPT !.pc = "displayedRows",
                                                  !.result = Ok(value)])
                         /\ UNCHANGED <<gridStates, emitted>>
                    ELSE IF webSocketManager /\ notification(method, param) = "sorted"
                    THEN /\ gridStates' = updateGridState_states(gridStates, id,
                                                                 "sorting", param, now)
                         /\ emitted' = emitGridEvent(updateGridState_emitted(emitted, id),
                                                     "grid_sorted", id)
                         /\ Resume(t, Done(tasks[t], Ok(value)))
                    ELSE /\ Resume(t, Done(tasks[t], Ok(value)))
                         /\ UNCHANGED <<gridStates, emitted>>
            ELSE /\ Resume(t, MethodFailed(tasks[t]))
                 /\ UNCHANGED <<pages, gridStates, emitted>>
    /\ UNCHANGED <<now, calls, issued, engines>>
    /\ UNCHANGED mgrVars
    /\ sockets' = Deliver(sockets, emitted, emitted')
    /\ UNCHANGED <<process, analysis>>

\* await grid.page.evaluate(() => window.gridApi ? getDisplayedRowCount() : 0),
\* then onGridFiltered.  The await sits inside the method's try block.
ExecuteDisplayedRows(t) ==
    /\ tasks[t].op = "executeGridMethod" /\ tasks[t].pc = "displayedRows"
    /\ LET p == tasks[t].page
           id == tasks[t].gridId
       IN \E ok \in CallOutcomes(PageOpen(p)) :
            IF ok
            THEN /\ gridStates' = updateGridState_states(gridStates, id, "filters",
                                                         tasks[t].param, now)
                 /\ emitted' = emitGridEvent(updateGridState_emitted(emitted, id),
                                             "grid_filtered", id)
                 /\ Resume(t, Done(tasks[t], tasks[t].result))
            ELSE /\ Resume(t, MethodFailed(tasks[t]))
                 /\ UNCHANGED <<gridStates, emitted>>
    /\ UNCHANGED <<now, calls, issued, engines, pages>>
    /\ UNCHANGED mgrVars
    /\ sockets' = Deliver(sockets, emitted, emitted')
    /\ UNCHANGED <<process, analysis>>

(***************************************************************************)
(* getGridState                                                            *)
(***************************************************************************)
\* Array.prototype.sort by (a.sortIndex || 0) - (b.sortIndex || 0): stable.
RECURSIVE InsertSorted(_, _)
InsertSorted(sorted, e) ==
    IF sorted = <<>> THEN <<e>>
    ELSE IF sorted[Len(sorted)].sortIndex <= e.sortIndex THEN Append(sorted, e)
    ELSE Append(InsertSorted(SubSeq(sorted, 1, Len(sorted) - 1), e), sorted[Len(sorted)])
RECURSIVE SortBySortIndex(_)
SortBySortIndex(s) ==
    IF s = <<>> THEN <<>>
    ELSE InsertSorted(SortBySortIndex(SubSeq(s, 1, Len(s) - 1)), s[Len(s)])

\* The sort state extracted from the column state (lines 853-861).
sortState_unordered(columnState) ==
    SelectSeq(columnState, LAMBDA col : col.sort # "none")
sortState(columnState) ==
    SortBySortIndex(SelectSeq(columnState, LAMBDA col : col.sort # "none"))

\* The record the in-page function returns (lines 863-870).
gridStateOf(page) ==
    [kind |-> "state",
     columnState |-> page.columnState,
     filterState |-> page.filterModel,
     sortState |-> sortState(page.columnState),
     selectedRows |-> <<>>,
     rowCount |-> Len(Displayed(page)),
     displayedRowCount |-> Len(Displayed(page))]

GetGridStateStart(t, gridId) ==
    /\ CanStart(t)
    /\ calls' = calls + 1
    /\ LET task == [Begin(t, "getGridState") EXCEPT !.gridId = gridId]
       IN Resume(t,
            IF getGridInstance(gridId).status = "error"
            THEN Done(task, getGridInstance(gridId))
            ELSE [task EXCEPT !.pc = "evaluate", !.page = instances[gridId].page])
    /\ UNCHANGED <<now, issued, engines, pages>>
    /\ UNCHANGED mgrVars
    /\ UNCHANGED sinkVars
    /\ UNCHANGED <<process, analysis>>

\* await grid.page.evaluate(...): a destroyed grid API returns no column
\* state, and the extraction of the sort state throws.
GetGridStateEvaluate_touch(t) ==
    /\ tasks[t].op = "getGridState" /\ tasks[t].pc = "evaluate"
    /\ Resume(t, Done(tasks[t], Ok(gridStateOf(pages[tasks[t].page]))))
    /\ instances' = [id \in DOMAIN instances |->
                        [instances[id] EXCEPT !.lastUpdated = now]]
    /\ UNCHANGED <<now, calls, issued, engines, pages, browser, isInitialized,
                   webSocketManager, grids>>
    /\ UNCHANGED sinkVars
    /\ UNCHANGED <<process, analysis>>
GetGridStateEvaluate(t) ==
    /\ tasks[t].op = "getGridState" /\ tasks[t].pc = "evaluate"
    /\ \E ok \in CallOutcomes(ApiLive(tasks[t].page)) :
        Resume(t,
            IF ok THEN Done(tasks[t], Ok(gridStateOf(pages[tasks[t].page])))
            ELSE Done(tasks[t], GridManagerError("GET_STATE_FAILED", tasks[t].gridId, TRUE)))
    /\ UNCHANGED <<now, calls, issued, engines, pages>>
    /\ UNCHANGED mgrVars
    /\ UNCHANGED sinkVars
    /\ UNCHANGED <<process, analysis>>

(***************************************************************************)
(* exportGridData                                                          *)
(***************************************************************************)
Formats == {"csv", "excel", "pdf"}       \* what a caller may pass as format

ExportGridDataStart(t, gridId, format) ==
    /\ CanStart(t)
    /\ calls' = calls + 1
    /\ LET task == [Begin(t, "exportGridData") EXCEPT !.gridId = gridId, !.format = format]
       IN Resume(t,
            IF getGridInstance(gridId).status = "error"
            THEN Done(task, getGridInstance(gridId))
            ELSE IF ~ExportFormatSchemaParse(format)
            THEN Done(task, GridManagerError("INVALID_EXPORT_FORMAT", gridId, TRUE))
            ELSE [task EXCEPT !.pc = "evaluate", !.page = instances[gridId].page])
    /\ UNCHANGED <<now, issued, engines, pages>>
    /\ UNCHANGED mgrVars
    /\ UNCHANGED sinkVars
    /\ UNCHANGED <<process, analysis>>

\* window.gridApi.getDataAsCsv(): the displayed rows; nothing from a
\* destroyed grid API.
getDataAsCsv(page) ==
    IF page.api = "live" THEN [csv |-> Displayed(page)] ELSE Null

\* await grid.page.evaluate(() => window.gridApi.getDataAsCsv()) for either
\* format, then onGridExported (an event; the snapshot is not touched).
ExportEvaluate(t) ==
    /\ tasks[t].op = "exportGridData" /\ tasks[t].pc = "evaluate"
    /\ LET p == tasks[t].page
           id == tasks[t].gridId
       IN \E ok \in CallOutcomes(ApiAvailable(p)) :
            IF ok
            THEN /\ emitted' = IF webSocketManager
                               THEN emitGridEvent(emitted, "grid_exported", id)
                               ELSE emitted
                 /\ Resume(t,
                        Done(tasks[t], Ok([kind |-> "export", data |-> getDataAsCsv(pages[p]),
                                    format |-> tasks[t].format,
                                    filename |-> <<id, now, tasks[t].format>>])))
            ELSE /\ Resume(t,
                        Done(tasks[t], GridManagerError("EXPORT_FAILED", id, TRUE)))
                 /\ UNCHANGED emitted
    /\ UNCHANGED <<now, calls, issued, engines, pages, gridStates>>
    /\ UNCHANGED mgrVars
    /\ sockets' = Deliver(sockets, emitted, emitted')
    /\ UNCHANGED <<process, analysis>>

(***************************************************************************)
(* getActiveGrids, getGridInfo (synchronous)                               *)
(***************************************************************************)
GetActiveGrids(t) ==
    /\ CanStart(t)
    /\ calls' = calls + 1
    /\ Resume(t,
                    Done(Begin(t, "getActiveGrids"),
                         Ok([kind |-> "ids", ids |-> getActiveGrids])))
    /\ UNCHANGED <<now, issued, engines, pages>>
    /\ UNCHANGED mgrVars
    /\ UNCHANGED sinkVars
    /\ UNCHANGED <<process, analysis>>

GetGridInfo(t, gridId) ==
    /\ CanStart(t)
    /\ calls' = calls + 1
    /\ Resume(t,
                    Done([Begin(t, "getGridInfo") EXCEPT !.gridId = gridId],
                         getGridInfo(gridId)))
    /\ UNCHANGED <<now, issued, engines, pages>>
    /\ UNCHANGED mgrVars
    /\ UNCHANGED sinkVars
    /\ UNCHANGED <<process, analysis>>

(***************************************************************************)
(* The MCP tool handlers (tools/grid-tools.ts): each awaits the manager's  *)
(* operations inside one try and answers formatSuccess(...) or, from its   *)
(* catch, formatError(...).                                                *)
(***************************************************************************)
formatSuccess(data) == [success |-> TRUE, isError |-> FALSE, data |-> data]
formatError(error) ==
    [success |-> FALSE, isError |-> TRUE,
     data |-> IF error.status = "error"
              THEN [code |-> error.code, gridId |-> error.gridId, cause |-> error.cause]
              ELSE [code |-> "", gridId |-> NoId, cause |-> FALSE]]
ToolHandler(result) ==
    IF result.status = "ok" THEN formatSuccess(result.value) ELSE formatError(result)

(***************************************************************************)
(* generateGridSummary (resources/data-resources.ts): getGridInfo, then    *)
(* getGridState, then executeGridMethod(gridId, 'getRenderedNodes'); every *)
(* failure is rethrown as SUMMARY_GENERATION_FAILED.                       *)
(***************************************************************************)
SummaryFailed(task) ==
    Done(task, GridManagerError("SUMMARY_GENERATION_FAILED", task.gridId, TRUE))

\* The summary over the rows `rowData` and the columns of the stored config.
gridSummaryOf(gridId, rowData, config) ==
    [kind |-> "summary", gridId |-> gridId, totalRows |-> Len(rowData),
     totalColumns |-> Len(config.columnDefs)]

\* getGridInfo(gridId) and the synchronous head of getGridState(gridId).
GenerateGridSummaryStart(t, gridId) ==
    /\ CanStart(t)
    /\ calls' = calls + 1
    /\ LET task == [Begin(t, "generateGridSummary") EXCEPT !.gridId = gridId]
       IN Resume(t,
            IF getGridInfo(gridId).status = "error"
                  \/ getGridInstance(gridId).status = "error"
            THEN SummaryFailed(task)
            ELSE [task EXCEPT !.pc = "getGridState", !.page = instances[gridId].page])
    /\ UNCHANGED <<now, issued, engines, pages>>
    /\ UNCHANGED mgrVars
    /\ UNCHANGED sinkVars
    /\ UNCHANGED <<process, analysis>>

\* await gridManager.getGridState(gridId), then the synchronous head of
\* executeGridMethod(gridId, 'getRenderedNodes').
SummaryGetGridState(t) ==
    /\ tasks[t].op = "generateGridSummary" /\ tasks[t].pc = "getGridState"
    /\ \E ok \in CallOutcomes(ApiLive(tasks[t].page)) :
        Resume(t,
            IF ok /\ getGridInstance(tasks[t].gridId).status = "ok"
            THEN [tasks[t] EXCEPT !.pc = "getRenderedNodes"]
            ELSE SummaryFailed(tasks[t]))
    /\ UNCHANGED <<now, calls, issued, engines, pages>>
    /\ UNCHANGED mgrVars
    /\ UNCHANGED sinkVars
    /\ UNCHANGED <<process, analysis>>

\* await gridManager.executeGridMethod(gridId, 'getRenderedNodes'): the rows
\* of the rendered nodes, or, when the call gives nothing back (a destroyed
\* grid API, nodes that do not survive the transfer from the page), the
\* rows of the stored config.
SummaryGetRenderedNodes(t) ==
    /\ tasks[t].op = "generateGridSummary" /\ tasks[t].pc = "getRenderedNodes"
    /\ LET p == tasks[t].page
           id == tasks[t].gridId
       IN \E ok \in CallOutcomes(ApiAvailable(p)) :
            IF ok
            THEN \E rowData \in (IF pages[p].api = "live"
                                  THEN {Displayed(pages[p]), instances[id].config.rowData}
                                  ELSE {instances[id].config.rowData}) :
                    Resume(t, Done(tasks[t],
                                   Ok(gridSummaryOf(id, rowData, instances[id].config))))
            ELSE Resume(t, SummaryFailed(tasks[t]))
    /\ UNCHANGED <<now, calls, issued, engines, pages>>
    /\ UNCHANGED mgrVars
    /\ UNCHANGED sinkVars
    /\ UNCHANGED <<process, analysis>>

(***************************************************************************)
(* destroyGrid and cleanup                                                 *)
(***************************************************************************)
\* The part of the state that the synchronous tail of destroyGrid rewrites.
Registry ==
    [grids |-> grids, instances |-> instances, gridStates |-> gridStates,
     emitted |-> emitted]
SetRegistry(m) ==
    /\ grids' = m.grids
    /\ instances' = m.instances
    /\ gridStates' = m.gridStates
    /\ emitted' = m.emitted

\* this.grids.delete(gridId), then webSocketManager.removeGrid(gridId)
\* (lines 912-918).
deleteGrid_keep(m, gridId) == m
deleteGrid(m, gridId) ==
    [m EXCEPT !.grids = Remove(@, gridId),
              !.gridStates = IF webSocketManager THEN removeGrid_states(@, gridId) ELSE @,
              !.emitted = IF webSocketManager THEN removeGrid_emitted(@, gridId) ELSE @]

\* grid.isDestroyed = true (line 909)
markDestroyed(m, gridId) == [m EXCEPT !.instances[gridId].isDestroyed = TRUE]

DestroyFailed(task) ==
    Done(task, GridManagerError("DESTROY_FAILED", task.gridId, TRUE))

\* cleanup's loop `for (const gridId of gridIds) try { await destroyGrid }`
\* run up to its next round trip: a destroyGrid that throws GRID_NOT_FOUND
\* is logged and skipped, one that finds the instance already destroyed
\* only deletes it.  The result is the registry and the identifiers left,
\* the first of which is the grid whose page is now being called.
RECURSIVE cleanupLoop(_, _)
cleanupLoop(m, ids) ==
    IF ids = <<>> THEN [m |-> m, ids |-> <<>>]
    ELSE IF Head(ids) \notin Range(m.grids) THEN cleanupLoop(m, Tail(ids))
    ELSE IF m.instances[Head(ids)].isDestroyed
         THEN cleanupLoop(deleteGrid(m, Head(ids)), Tail(ids))
         ELSE [m |-> m, ids |-> ids]

\* cleanup from the registry m with `ids` still to destroy: the loop, then
\* `if (this.browser) await this.browser.close()`, then isInitialized = false.
CleanupContinue(t, task, m, ids) ==
    LET r == cleanupLoop(m, ids)
    IN  /\ SetRegistry(r.m)
        /\ IF r.ids # <<>>
           THEN /\ Resume(t,
                        [task EXCEPT !.pc = "destroyEvaluate", !.gridId = Head(r.ids),
                                     !.page = r.m.instances[Head(r.ids)].page,
                                     !.ids = r.ids])
                /\ UNCHANGED isInitialized
           ELSE IF browser # 0
           THEN /\ Resume(t,
                        [task EXCEPT !.pc = "browserClose", !.engine = browser,
                                     !.gridId = NoId, !.page = 0, !.ids = <<>>])
                /\ UNCHANGED isInitialized
           ELSE /\ Resume(t,
                        Done([task EXCEPT !.gridId = NoId, !.page = 0, !.ids = <<>>],
                             Ok(Void)))
                /\ isInitialized' = FALSE

\* How a destroyGrid that has ended (normally or by throwing) goes on: it
\* returns to the caller, or to cleanup's loop, which logs the error.
DestroyEnds_propagate(t, m, result) ==
    /\ SetRegistry(m)
    /\ Resume(t, Done(tasks[t], result))
    /\ UNCHANGED isInitialized
DestroyEnds(t, m, result) ==
    IF tasks[t].op = "destroyGrid"
    THEN /\ SetRegistry(m)
         /\ Resume(t, Done(tasks[t], result))
         /\ UNCHANGED isInitialized
    ELSE CleanupContinue(t, tasks[t], m, Tail(tasks[t].ids))

\* The synchronous head of destroyGrid (lines 889-899).
DestroyGridStart(t, gridId) ==
    /\ CanStart(t)
    /\ calls' = calls + 1
    /\ LET task == [Begin(t, "destroyGrid") EXCEPT !.gridId = gridId]
       IN IF ~HasGrid(gridId)
          THEN /\ Resume(t,
                    Done(task, GridManagerError("GRID_NOT_FOUND", gridId, FALSE)))
               /\ UNCHANGED <<grids, instances, gridStates, emitted>>
          ELSE IF ~instances[gridId].isDestroyed
          THEN /\ Resume(t,
                    [task EXCEPT !.pc = "destroyEvaluate", !.page = instances[gridId].page])
               /\ UNCHANGED <<grids, instances, gridStates, emitted>>
          ELSE /\ SetRegistry(deleteGrid(Registry, gridId))
               /\ Resume(t, Done(task, Ok(Void)))
    /\ UNCHANGED <<now, issued, engines, pages, browser, isInitialized, webSocketManager>>
    /\ sockets' = Deliver(sockets, emitted, emitted')
    /\ UNCHANGED <<process, analysis>>

\* await grid.page.evaluate(() => { if (window.gridApi) window.gridApi.destroy() })
DestroyEvaluate(t) ==
    /\ tasks[t].op \in {"destroyGrid", "cleanup"} /\ tasks[t].pc = "destroyEvaluate"
    /\ LET p == tasks[t].page
       IN \E ok \in CallOutcomes(PageOpen(p)) :
            IF ok
            THEN /\ pages' = [pages EXCEPT ![p].api =
                                IF @ = "live" THEN "destroyed" ELSE @]
                 /\ Resume(t, [tasks[t] EXCEPT !.pc = "pageClose"])
                 /\ UNCHANGED <<grids, instances, gridStates, emitted, isInitialized>>
            ELSE /\ DestroyEnds(t, Registry, DestroyFailed(tasks[t]).result)
                 /\ UNCHANGED pages
    /\ UNCHANGED <<now, calls, issued, engines, browser, webSocketManager>>
    /\ sockets' = Deliver(sockets, emitted, emitted')
    /\ UNCHANGED <<process, analysis>>

\* await grid.page.close(), then isDestroyed = true, the deletion and the
\* sink notification.  Closing a page that another caller has closed in the
\* meantime may be answered either way.
DestroyClose(t) ==
    /\ tasks[t].op \in {"destroyGrid", "cleanup"} /\ tasks[t].pc = "pageClose"
    /\ LET p == tasks[t].page
           id == tasks[t].gridId
       IN \E ok \in BOOLEAN :
            IF ok
            THEN /\ pages' = [pages EXCEPT ![p].open = FALSE, ![p].closes = @ + 1]
                 /\ DestroyEnds(t, deleteGrid(markDestroyed(Registry, id), id), Ok(Void))
            ELSE /\ pages' = [pages EXCEPT ![p].closes = @ + 1]
                 /\ DestroyEnds(t, Registry, DestroyFailed(tasks[t]).result)
    /\ UNCHANGED <<now, calls, issued, engines, browser, webSocketManager>>
    /\ sockets' = Deliver(sockets, emitted, emitted')
    /\ UNCHANGED <<process, analysis>>

\* cleanup: the snapshot `gridIds` of the keys and the loop up to its first
\* round trip.
CleanupStart(t) ==
    /\ CanStart(t)
    /\ calls' = calls + 1
    /\ CleanupContinue(t, [Begin(t, "cleanup") EXCEPT !.gridIds = grids], Registry, grids)
    /\ UNCHANGED <<now, issued, engines, pages, browser, webSocketManager>>
    /\ sockets' = Deliver(sockets, emitted, emitted')
    /\ UNCHANGED <<process, analysis>>

\* await this.browser.close(); this.browser = null: the engine goes down
\* with all its pages.  A failure is logged.  Then isInitialized = false.
CleanupBrowserClose(t) ==
    /\ tasks[t].op = "cleanup" /\ tasks[t].pc = "browserClose"
    /\ LET e == tasks[t].engine
       IN \E ok \in BOOLEAN :
            IF ok
            THEN /\ engines' = [engines EXCEPT ![e] = "closed"]
                 /\ pages' = [i \in 1..Len(pages) |->
                                IF pages[i].engine = e
                                THEN [pages[i] EXCEPT !.open = FALSE]
                                ELSE pages[i]]
                 /\ browser' = 0
            ELSE UNCHANGED <<engines, pages, browser>>
    /\ isInitialized' = FALSE
    /\ Resume(t, Done(tasks[t], Ok(Void)))
    /\ UNCHANGED <<now, calls, issued, webSocketManager, grids, instances>>
    /\ UNCHANGED sinkVars
    /\ UNCHANGED <<process, analysis>>

\* The identifiers a caller may name: those minted so far, and one that
\* never is.
CallerIds == issued \cup {UnknownId}

\* One step of caller t: it issues an operation, or its operation in flight
\* is resumed at the await it is suspended on.
CallerStep(t) ==
    \/ InitializeStart(t)
    \/ InitializeLaunch(t)
    \/ \E config \in Configs, rnd \in Suffixes : CreateGridStart(t, config, rnd)
    \/ \E config \in DegenerateConfigs, rnd \in Suffixes :
            calls + 1 = MaxCalls /\ CreateGridStart(t, config, rnd)
    \/ CreateNewPage(t)
    \/ CreateSetViewport(t)
    \/ CreateLoadGridHtml(t)
    \/ CreateSetContent(t)
    \/ CreateWaitForFunction(t)
    \/ CreateEvaluate(t)
    \/ \E id \in CallerIds, rowData \in RowDataSets :
            UpdateGridDataStart(t, id, rowData)
    \/ UpdateEvaluate(t)
    \/ \E id \in CallerIds, input \in ExecInputs :
            ExecuteGridMethodStart(t, id, input[1], input[2])
    \/ ExecuteEvaluate(t)
    \/ ExecuteDisplayedRows(t)
    \/ \E id \in CallerIds : GetGridStateStart(t, id)
    \/ GetGridStateEvaluate(t)
    \/ \E id \in CallerIds, format \in Formats : ExportGridDataStart(t, id, format)
    \/ ExportEvaluate(t)
    \/ GetActiveGrids(t)
    \/ \E id \in CallerIds : GetGridInfo(t, id)
    \/ \E id \in CallerIds : GenerateGridSummaryStart(t, id)
    \/ SummaryGetGridState(t)
    \/ SummaryGetRenderedNodes(t)
    \/ \E id \in CallerIds : DestroyGridStart(t, id)
    \/ DestroyEvaluate(t)
    \/ DestroyClose(t)
    \/ CleanupStart(t)
    \/ CleanupBrowserClose(t)

Next ==
    \/ Tick
    \/ SetWebSocketManager
    \/ \E t \in Tasks : CallerStep(t)

Spec == Init /\ [][Next]_vars

\* The browser answers every call made to it, with a result or an error
\* (puppeteer rejects a call whose target is gone and times out one that
\* gets no answer), so a destroy or a cleanup suspended at an await is
\* resumed.
FairSpec ==
    /\ Spec
    /\ \A t \in Tasks :
          /\ WF_vars(DestroyEvaluate(t))
          /\ WF_vars(DestroyClose(t))
          /\ WF_vars(CleanupBrowserClose(t))

\* The manager with the web server up: one caller (the MCP server handles
\* one tool call at a time) and the observers of the sink.
ObserverNext ==
    \/ Tick
    \/ SetWebSocketManager
    \/ CallerStep("t1")
    \/ \E o \in Observers : Connection(o)
    \/ \E o \in Observers, id \in CallerIds : RequestGridData(o, id)

ObserverSpec == Init /\ [][ObserverNext]_vars

\* One caller and two observers that connect at any time: the fan-out of the
\* sink's broadcasts (io.emit) to more than one socket.
Viewers == {"o1", "o2"}
FanoutInit ==
    /\ now = 1
    /\ calls = 0
    /\ issued = {}
    /\ browser = 0
    /\ engines = <<>>
    /\ isInitialized = FALSE
    /\ webSocketManager = FALSE
    /\ grids = <<>>
    /\ instances = <<>>
    /\ pages = <<>>
    /\ gridStates = <<>>
    /\ emitted = <<>>
    /\ sockets = [o \in Viewers |-> NoSocket]
    /\ process = Running
    /\ analysis = NoAnalysis
    /\ tasks = [t \in Tasks |-> IdleTask]
    /\ returned = [t |-> "", call |-> IdleTask]

FanoutNext ==
    \/ Tick
    \/ SetWebSocketManager
    \/ CallerStep("t1")
    \/ \E o \in Viewers : Connection(o)

FanoutSpec == FanoutInit /\ [][FanoutNext]_vars

(***************************************************************************)
(* Shutdown of the server process (src/server.ts).  handleShutdown calls   *)
(* gridManager.cleanup() as the caller "t2"; the caller "t1" is the        *)
(* startup and the tool calls, which here initialise and create grids.     *)
(***************************************************************************)
\* How far the shutdown's gridManager.cleanup() has got.
cleanupProgress ==
    CASE process.pc \in {"running", "stopWebServer", "main", "initializeGridManager",
                          "startWebServer", "connect"} -> "not called"
      [] process.pc = "cleanup" /\ tasks["t2"].pc # "idle" -> "in flight"
      [] OTHER -> "returned"

\* process.exit(code): the process ends, and with it every operation in
\* flight; the browser engine is a process of its own and is left as it is.
Exit(code) ==
    /\ process' = [process EXCEPT !.pc = "exited", !.exitCode = code,
                                  !.cleanup = cleanupProgress]
    /\ tasks' = [t \in Tasks |-> [tasks[t] EXCEPT !.pc = "exited"]]
    /\ UNCHANGED <<now, calls, issued, engines, pages, returned>>
    /\ UNCHANGED mgrVars
    /\ UNCHANGED sinkVars
    /\ UNCHANGED analysis

\* `await gridManager.cleanup()` (line 456): cleanup up to its first await.
ShutdownCallsCleanup ==
    /\ CleanupContinue("t2", [Begin("t2", "cleanup") EXCEPT !.gridIds = grids],
                       Registry, grids)
    /\ process' = [process EXCEPT !.pc = "cleanup", !.isShuttingDown = TRUE]
    /\ sockets' = Deliver(sockets, emitted, emitted')
    /\ UNCHANGED <<now, calls, issued, engines, pages, browser, webSocketManager>>
    /\ UNCHANGED analysis

\* A shutdown signal (SIGINT, SIGTERM, disconnect, ...) or an uncaught
\* failure: handleShutdown up to its first await.  webServer is set when
\* the web server was started, which is when the sink is attached.
HandleShutdown ==
    /\ process.pc # "exited"
    /\ IF process.isShuttingDown
       THEN Exit(1)
       ELSE IF webSocketManager
       THEN /\ process' = [process EXCEPT !.pc = "stopWebServer",
                                          !.isShuttingDown = TRUE]
            /\ UNCHANGED <<now, calls, issued, engines, pages, tasks, returned>>
            /\ UNCHANGED mgrVars
            /\ UNCHANGED sinkVars
            /\ UNCHANGED analysis
       ELSE ShutdownCallsCleanup

\* `await webServer.stop()` (line 449) resolves, and cleanup is called, or
\* rejects (httpServer.close reports an error), and the catch of line 468
\* logs it; process.exit(0) follows.
StopWebServer ==
    /\ process.pc = "stopWebServer"
    /\ \E ok \in BOOLEAN : IF ok THEN ShutdownCallsCleanup ELSE Exit(0)

\* gridManager.cleanup() has returned; `await mcpServer.close()` (line 463).
ShutdownCleanupReturned ==
    /\ process.pc = "cleanup"
    /\ tasks["t2"].pc = "idle"
    /\ process' = [process EXCEPT !.pc = "closeMcp"]
    /\ UNCHANGED <<now, calls, issued, engines, pages, tasks, returned>>
    /\ UNCHANGED mgrVars
    /\ UNCHANGED sinkVars
    /\ UNCHANGED analysis

\* mcpServer.close() resolves or rejects; process.exit(0) either way.
ShutdownCloseMcp ==
    /\ process.pc = "closeMcp"
    /\ Exit(0)

ShutdownNext ==
    \/ Tick
    \/ process.pc = "running" /\ SetWebSocketManager
    \/ InitializeStart("t1")
    \/ InitializeLaunch("t1")
    \/ \E config \in Configs, rnd \in Suffixes : CreateGridStart("t1", config, rnd)
    \/ CreateNewPage("t1")
    \/ CreateSetViewport("t1")
    \/ CreateLoadGridHtml("t1")
    \/ CreateSetContent("t1")
    \/ CreateWaitForFunction("t1")
    \/ CreateEvaluate("t1")
    \/ DestroyEvaluate("t2")
    \/ DestroyClose("t2")
    \/ CleanupBrowserClose("t2")
    \/ HandleShutdown
    \/ StopWebServer
    \/ ShutdownCleanupReturned
    \/ ShutdownCloseMcp

ShutdownSpec == Init /\ [][ShutdownNext]_vars

(***************************************************************************)
(* Startup of the server process: main() and setupMcpServer().  The        *)
(* process record also says whether DISABLE_WEB_SERVER is 'true', which of *)
(* the globals gridManager, webServer and mcpServer are assigned, whether  *)
(* the tools and resources are registered and whether the transport has    *)
(* been connected.  The manager's initialize() and, once the transport is  *)
(* connected, the create_grid tool calls run as the caller "t1", the       *)
(* shutdown's cleanup() as the caller "t2"; signals arrive once the        *)
(* server has started.                                                     *)
(***************************************************************************)
StartupInit ==
    /\ now = 1
    /\ calls = 0
    /\ issued = {}
    /\ browser = 0
    /\ engines = <<>>
    /\ isInitialized = FALSE
    /\ webSocketManager = FALSE
    /\ grids = <<>>
    /\ instances = <<>>
    /\ pages = <<>>
    /\ gridStates = <<>>
    /\ emitted = <<>>
    /\ sockets = [o \in Observers |-> NoSocket]
    /\ \E disabled \in BOOLEAN :
          process = [pc |-> "main", isShuttingDown |-> FALSE, exitCode |-> NoExit,
                     cleanup |-> "not called", disableWebServer |-> disabled,
                     gridManager |-> FALSE, webServer |-> FALSE, mcpServer |-> FALSE,
                     registered |-> FALSE, started |-> FALSE]
    /\ analysis = NoAnalysis
    /\ tasks = [t \in Tasks |-> IdleTask]
    /\ returned = [t |-> "", call |-> IdleTask]

\* The process goes on as p; nothing else changes.
Proceed(p) ==
    /\ process' = p
    /\ UNCHANGED <<now, calls, issued, engines, pages, tasks, returned, analysis>>
    /\ UNCHANGED mgrVars
    /\ UNCHANGED sinkVars

\* main's catch (lines 579-589): `await handleShutdown('startup-error')`,
\* whose process.exit(0) comes before main's process.exit(1).  handleShutdown
\* (lines 436-473) stops the web server if webServer is assigned, cleans up if
\* gridManager is, and exits with 0.
StartupFailed(p) ==
    IF p.webServer
    THEN Proceed([p EXCEPT !.pc = "stopWebServer", !.isShuttingDown = TRUE])
    ELSE IF p.gridManager
    THEN /\ CleanupContinue("t2", [Begin("t2", "cleanup") EXCEPT !.gridIds = grids],
                            Registry, grids)
         /\ process' = [p EXCEPT !.pc = "cleanup", !.isShuttingDown = TRUE]
         /\ sockets' = Deliver(sockets, emitted, emitted')
         /\ UNCHANGED <<now, calls, issued, engines, pages, browser, webSocketManager,
                        analysis>>
    ELSE /\ process' = [p EXCEPT !.pc = "exited", !.isShuttingDown = TRUE,
                                 !.exitCode = 0]
         /\ tasks' = [t \in Tasks |-> [tasks[t] EXCEPT !.pc = "exited"]]
         /\ UNCHANGED <<now, calls, issued, engines, pages, returned, analysis>>
         /\ UNCHANGED mgrVars
         /\ UNCHANGED sinkVars

\* setupMcpServer from the registration on (lines 409-429): the tools and
\* resources are registered, then the argument of debugLog('Server
\* capabilities', {..., webServerUrl: webServer.getUrl(), ...}) is evaluated,
\* which throws when webServer is not assigned; otherwise the server is
\* returned to main, which awaits mcpServer.connect(transport).
RegisterTools(p) ==
    IF p.webServer
    THEN Proceed([p EXCEPT !.registered = TRUE, !.mcpServer = TRUE, !.pc = "connect"])
    ELSE StartupFailed([p EXCEPT !.registered = TRUE])

\* main up to its first await: setupSignalHandlers, new McpServer, new
\* GridManager and manager.initialize() up to puppeteer.launch.
StartupMain ==
    /\ process.pc = "main"
    /\ calls' = calls + 1
    /\ Resume("t1", [Begin("t1", "initialize") EXCEPT !.pc = "launch"])
    /\ process' = [process EXCEPT !.pc = "initializeGridManager"]
    /\ UNCHANGED <<now, issued, engines, pages, analysis>>
    /\ UNCHANGED mgrVars
    /\ UNCHANGED sinkVars

\* manager.initialize() has returned (lines 396-407): on success gridManager
\* is assigned and, unless disabled, initializeWebServer runs up to
\* `await server.start()`, having attached the sink (lines 130-142).
GridManagerInitialized ==
    /\ process.pc = "initializeGridManager"
    /\ tasks["t1"].pc = "idle"
    /\ IF returned.call.result.status # "ok"
       THEN StartupFailed(process)
       ELSE IF process.disableWebServer
       THEN RegisterTools([process EXCEPT !.gridManager = TRUE])
       ELSE /\ process' = [process EXCEPT !.gridManager = TRUE, !.pc = "startWebServer"]
            /\ webSocketManager' = TRUE
            /\ UNCHANGED <<now, calls, issued, engines, pages, tasks, returned,
                           analysis, browser, isInitialized, grids, instances>>
            /\ UNCHANGED sinkVars

\* server.start() resolves, and webServer is assigned, or rejects, which
\* setupMcpServer logs (lines 400-404); the registration follows.
WebServerStarted ==
    /\ process.pc = "startWebServer"
    /\ \E ok \in BOOLEAN : RegisterTools([process EXCEPT !.webServer = ok])

\* await mcpServer.connect(transport) (line 568).
ConnectTransport ==
    /\ process.pc = "connect"
    /\ \E ok \in BOOLEAN :
          IF ok THEN Proceed([process EXCEPT !.pc = "running", !.started = TRUE])
          ELSE StartupFailed(process)

StartupNext ==
    \/ Tick
    \/ StartupMain
    \/ InitializeLaunch("t1")
    \/ GridManagerInitialized
    \/ WebServerStarted
    \/ ConnectTransport
    \/ \E config \in Configs, rnd \in Suffixes :
          process.started /\ CreateGridStart("t1", config, rnd)
    \/ CreateNewPage("t1")
    \/ CreateSetViewport("t1")
    \/ CreateLoadGridHtml("t1")
    \/ CreateSetContent("t1")
    \/ CreateWaitForFunction("t1")
    \/ CreateEvaluate("t1")
    \/ process.started /\ HandleShutdown
    \/ StopWebServer
    \/ DestroyEvaluate("t2")
    \/ DestroyClose("t2")
    \/ CleanupBrowserClose("t2")
    \/ ShutdownCleanupReturned
    \/ ShutdownCloseMcp

StartupSpec == StartupInit /\ [][StartupNext]_vars

(***************************************************************************)
(* The summary reader's statistics (resources/data-resources.ts).  A cell  *)
(* is a JavaScript value: its kind and, for a number, its value, for a     *)
(* string, its length.  A mean or a median is kept exact: the mean as sum  *)
(* and count, the median as twice its value; the completeness as the       *)
(* number of hundredths of a percent.                                      *)
(***************************************************************************)
NullV == [k |-> "null", v |-> 0]
Undefined == [k |-> "undefined", v |-> 0]
Num(n) == [k |-> "number", v |-> n]
Bool(b) == [k |-> "boolean", v |-> b]
Str(len) == [k |-> "string", v |-> len]      \* a string Date.parse rejects
DateStr == [k |-> "datestring", v |-> 10]    \* a string Date.parse accepts

\* Number of elements of s that are of the given kind.
CountKind(s, kind) == Len(SelectSeq(s, LAMBDA x : x.k = kind))
RECURSIVE SumSeq(_)
SumSeq(s) == IF s = <<>> THEN 0 ELSE Head(s).v + SumSeq(Tail(s))
MinOf(S) == CHOOSE m \in S : \A n \in S : m <= n
MaxOf(S) == CHOOSE m \in S : \A n \in S : m >= n
\* [...numericValues].sort((a, b) => a - b)
RECURSIVE sortNumbers(_)
sortNumbers(s) ==
    IF s = <<>> THEN <<>>
    ELSE LET m == MinOf({s[i].v : i \in 1..Len(s)})
             i == CHOOSE j \in 1..Len(s) : s[j].v = m
         IN <<m>> \o sortNumbers(SubSeq(s, 1, i - 1) \o SubSeq(s, i + 1, Len(s)))

\* inferDataType(values): the kind that more than 80% of the first ten
\* values have, else text.
inferDataType(values) ==
    LET sample == SubSeq(values, 1, IF Len(values) < 10 THEN Len(values) ELSE 10)
        total == Len(sample)
        numberCount == CountKind(sample, "number")
        booleanCount == CountKind(sample, "boolean")
        dateCount == CountKind(sample, "datestring")
    IN  IF Len(values) = 0 THEN "unknown"
        ELSE IF numberCount * 10 > 8 * total THEN "number"
        ELSE IF booleanCount * 10 > 8 * total THEN "boolean"
        ELSE IF dateCount * 10 > 8 * total THEN "date"
        ELSE "text"

\* row[field]
Cell(row, field) == IF field \in DOMAIN row THEN row[field] ELSE Undefined
\* data.map(row => row[field]).filter(val => val !== null && val !== undefined)
nonNullValues_all(data, field) == [i \in 1..Len(data) |-> Cell(data[i], field)]
nonNullValues(data, field) ==
    SelectSeq([i \in 1..Len(data) |-> Cell(data[i], field)],
              LAMBDA val : val.k \notin {"null", "undefined"})

\* analyzeColumnData(data, field, columnDef).  numeric and text hold the
\* optional statistics: empty when the code leaves them undefined.
analyzeColumnData(data, field, columnDef) ==
    LET values == nonNullValues(data, field)
        type == IF "type" \in DOMAIN columnDef THEN columnDef.type
                ELSE inferDataType(values)
        numericValues == SelectSeq(values, LAMBDA val : val.k = "number")
        sorted == sortNumbers(numericValues)
        mid == Len(sorted) \div 2
        stringValues == SelectSeq(values, LAMBDA val : val.k \in {"string", "datestring"})
        lengths == {stringValues[i].v : i \in 1..Len(stringValues)}
    IN  [field |-> field,
         type |-> type,
         nullCount |-> Len(data) - Len(values),
         uniqueCount |-> Cardinality(Range(values)),
         numeric |-> IF type = "number" /\ Len(numericValues) > 0
                     THEN <<[min |-> sorted[1],
                             max |-> sorted[Len(sorted)],
                             sum |-> SumSeq(numericValues),
                             count |-> Len(numericValues),
                             median2 |-> IF Len(sorted) % 2 = 0
                                         THEN sorted[mid] + sorted[mid + 1]
                                         ELSE 2 * sorted[mid + 1]]>>
                     ELSE <<>>,
         text |-> IF type = "text" /\ Len(stringValues) > 0
                  THEN <<[minLength |-> MinOf(lengths),
                          maxLength |-> MaxOf(lengths),
                          sumLength |-> SumSeq(stringValues),
                          count |-> Len(stringValues)]>>
                  ELSE <<>>]

RECURSIVE sumNullCounts(_)
sumNullCounts(columnStats) ==
    IF columnStats = <<>> THEN 0
    ELSE Head(columnStats).nullCount + sumNullCounts(Tail(columnStats))

\* Math.round(completeness * 100) / 100 with completeness =
\* ((totalCells - nullCells) / totalCells) * 100, in hundredths of a percent.
roundedCompleteness(totalCells, nullCells) ==
    IF totalCells > 0
    THEN (20000 * (totalCells - nullCells) + totalCells) \div (2 * totalCells)
    ELSE 0

\* The statistics of generateGridSummary (lines 143-165) over the rows
\* rowData and the columns columnDefs.
summaryStats(rowData, columnDefs) ==
    LET columnStats == [i \in 1..Len(columnDefs) |->
                           analyzeColumnData(rowData, columnDefs[i].field, columnDefs[i])]
    IN  [totalRows |-> Len(rowData),
         totalColumns |-> Len(columnStats),
         columnStats |-> columnStats,
         dataTypes |-> [ty \in {columnStats[i].type : i \in 1..Len(columnStats)} |->
                           Cardinality({i \in 1..Len(columnStats) : columnStats[i].type = ty})],
         completeness |-> roundedCompleteness(Len(rowData) * Len(columnStats),
                                              sumNullCounts(columnStats))]

\* The datasets the statistics are computed over.  The x column is any row
\* of at most MaxRows cells, or a run of numbers, booleans, date strings
\* and other strings that fills a sample of five or of ten, alone, after a
\* null, or followed by two more strings.  The y column is absent, all
\* null, or a number in every row.
CellValues == {NullV, Num(10), Num(30), Str(1), Bool(1)}
ShortColumns == UNION {[1..n -> CellValues] : n \in 0..MaxRows}
Run(n, val) == [i \in 1..n |-> val]
Block(n, b, d, s) ==
    Run(n, Num(10)) \o Run(b, Bool(1)) \o Run(d, DateStr) \o Run(s, Str(2))
SampleColumns ==
    {Block(q[1], q[2], q[3], q[4]) :
        q \in {r \in (0..10) \X (0..10) \X (0..10) \X (0..10) :
                  r[1] + r[2] + r[3] + r[4] \in {5, 10}}}
LongColumns ==
    UNION {{c, <<NullV>> \o c, c \o <<Str(1), Str(1)>>} : c \in SampleColumns}
XColumns == ShortColumns \cup LongColumns
ColTyped(f, type) == [field |-> f, type |-> type]
Analyses ==
    UNION {{[rowData |-> [i \in 1..Len(c) |-> [x |-> c[i]]],
             columnDefs |-> <<Col("x")>>, stats |-> NotComputed],
            [rowData |-> [i \in 1..Len(c) |-> [x |-> c[i]]],
             columnDefs |-> <<ColTyped("x", "number")>>, stats |-> NotComputed],
            [rowData |-> [i \in 1..Len(c) |-> [x |-> c[i], y |-> NullV]],
             columnDefs |-> <<Col("x"), Col("y")>>, stats |-> NotComputed],
            [rowData |-> [i \in 1..Len(c) |-> [x |-> c[i], y |-> Num(30)]],
             columnDefs |-> <<Col("x"), Col("y")>>, stats |-> NotComputed]} :
           c \in XColumns}

\* The reader is given one dataset and computes its statistics.
AnalysisInit ==
    /\ now = 1
    /\ calls = 0
    /\ issued = {}
    /\ browser = 0
    /\ engines = <<>>
    /\ isInitialized = FALSE
    /\ webSocketManager = FALSE
    /\ grids = <<>>
    /\ instances = <<>>
    /\ pages = <<>>
    /\ gridStates = <<>>
    /\ emitted = <<>>
    /\ sockets = [o \in Observers |-> NoSocket]
    /\ process = Running
    /\ analysis \in Analyses
    /\ tasks = [t \in Tasks |-> IdleTask]
    /\ returned = [t |-> "", call |-> IdleTask]

Summarize ==
    /\ analysis.stats = NotComputed
    /\ analysis' = [analysis EXCEPT
                       !.stats = summaryStats(analysis.rowData, analysis.columnDefs)]
    /\ UNCHANGED <<now, calls, issued, engines, pages, tasks, returned, process>>
    /\ UNCHANGED mgrVars
    /\ UNCHANGED sinkVars

AnalysisNext == Summarize

AnalysisSpec == AnalysisInit /\ [][AnalysisNext]_vars

(***************************************************************************)
(* getGridState on a grid of three columns whose column state (the sort    *)
(* and sort index of each column, as earlier applyColumnState calls left   *)
(* them) is chosen freely: one caller reads the state and applies further  *)
(* column states.                                                          *)
(***************************************************************************)
ConfigXYZ == [columnDefs |-> <<Col("x"), Col("y"), Col("z")>>, rowData |-> <<1>>]
\* gridApi.getColumnState(): an unsorted column has sort null and no sort index.
ColumnStates ==
    {cs \in [1..3 -> [colId : {"x", "y", "z"}, sort : {"none", "asc", "desc"},
                      sortIndex : 0..MaxSortIndex]] :
        \A i \in 1..3 :
            /\ cs[i].colId = colIdOf(ConfigXYZ.columnDefs, i)
            /\ cs[i].sort = "none" => cs[i].sortIndex = 0}
\* Arguments of gridApi.applyColumnState: one column, named or unknown.
SortParams ==
    {[kind |-> "columnState", state |-> <<[colId |-> c, sort |-> o]>>] :
        c \in {"x", "z", "w"}, o \in {"asc", "none"}}
SortGridId == generateGridId(1, 1)

SortInit ==
    /\ now = 1
    /\ calls = 2
    /\ issued = {SortGridId}
    /\ browser = 1
    /\ engines = <<"live">>
    /\ isInitialized = TRUE
    /\ webSocketManager = FALSE
    /\ grids = <<SortGridId>>
    /\ instances = Put(<<>>, SortGridId, newGridInstance(SortGridId, 1, ConfigXYZ, 1))
    /\ \E cs \in ColumnStates :
          pages = <<[createAGGrid([NewPage(1) EXCEPT !.loaded = TRUE], ConfigXYZ)
                        EXCEPT !.columnState = cs]>>
    /\ gridStates = <<>>
    /\ emitted = <<>>
    /\ sockets = [o \in Observers |-> NoSocket]
    /\ process = Running
    /\ analysis = NoAnalysis
    /\ tasks = [t \in Tasks |-> IdleTask]
    /\ returned = [t |-> "", call |-> IdleTask]

SortNext ==
    \/ GetGridStateStart("t1", SortGridId)
    \/ GetGridStateEvaluate("t1")
    \/ \E param \in SortParams :
          ExecuteGridMethodStart("t1", SortGridId, "applyColumnState", param)
    \/ ExecuteEvaluate("t1")

SortSpec == SortInit /\ [][SortNext]_vars

(***************************************************************************)
(* Vocabulary of the properties.                                           *)
(***************************************************************************)
\* The operations that name a grid.
GridOps == {"getGridInfo", "updateGridData", "executeGridMethod", "getGridState",
            "exportGridData", "destroyGrid"}

\* In this step caller t issues an operation: it returns at once (the tasks
\* stay as they are) or it is suspended at its first await.
Starts(t) ==
    /\ calls' = calls + 1
    /\ tasks[t].pc = "idle"
    /\ IF tasks' = tasks THEN returned'.t = t ELSE tasks'[t] # tasks[t]
\* The operation issued in such a step.
Issued(t) == IF tasks' = tasks THEN returned'.call ELSE tasks'[t]
\* In this step an operation of caller t returns; returned' holds it.
Returns(t) ==
    \/ tasks[t].pc # "idle" /\ tasks'[t].pc = "idle"
    \/ Starts(t) /\ tasks' = tasks
Idle == \A t \in Tasks : tasks[t].pc = "idle"

\* createGrid(id) has returned id / destroyGrid(id) has gone through.
Created(id) == id \in DOMAIN instances
Destroyed(id) == id \in DOMAIN instances /\ instances[id].isDestroyed

\* What an operation naming id would meet if it were issued now: the five
\* operations that resolve through getGridInstance, and destroyGrid, fail.
CallsFail(id) ==
    /\ getGridInstance(id).status = "error"
    /\ getGridInfo(id).status = "error"
    /\ ~HasGrid(id)

(***************************************************************************)
(* C1.  Destroyed is terminal: once destroyGrid(id) has gone through, id   *)
(* stays destroyed, is absent from getActiveGrids(), every operation       *)
(* naming id that is issued later returns an error at once, and nothing    *)
(* makes id live again.                                                    *)
(***************************************************************************)
C1_DestroyedIsTerminal ==
    [][\A id \in GridIds :
          /\ Destroyed(id) => Destroyed(id)'
          /\ Destroyed(id)' => (CallsFail(id)' /\ id \notin Range(getActiveGrids'))
          /\ \A t \in Tasks :
                (Destroyed(id) /\ Starts(t) /\ Issued(t).op \in GridOps
                    /\ Issued(t).gridId = id)
                => (tasks' = tasks /\ returned'.call.result.status = "error")]_vars

C1_Witness ==
    /\ Idle
    /\ returned.call.op = "getGridState"
    /\ Destroyed(returned.call.gridId)
    /\ returned.call.result.status = "error"

(***************************************************************************)
(* C2.  An operation naming an identifier that no successful createGrid    *)
(* has returned fails at once with GRID_NOT_FOUND, and leaves the          *)
(* registry, the instances, every page and the sink (snapshots and         *)
(* emitted notifications) as they were.                                    *)
(***************************************************************************)
C2_UnknownIdNotFound ==
    [][\A t \in Tasks :
          (Starts(t) /\ Issued(t).op \in GridOps /\ ~Created(Issued(t).gridId))
          => /\ tasks' = tasks
             /\ returned'.call.result.status = "error"
             /\ returned'.call.result.code = "GRID_NOT_FOUND"
             /\ returned'.call.result.gridId = Issued(t).gridId
             /\ UNCHANGED <<grids, instances, pages, gridStates, emitted>>]_vars

C2_Witness ==
    /\ returned.call.op = "destroyGrid"
    /\ ~Created(returned.call.gridId)
    /\ returned.call.result.code = "GRID_NOT_FOUND"
    /\ grids # <<>>
    /\ gridStates # <<>>

(***************************************************************************)
(* C3.  As claimed: an operation other than create on an identifier whose  *)
(* grid was created and later destroyed fails with GRID_DESTROYED.         *)
(***************************************************************************)
C3_DestroyedErrorAsClaimed ==
    [][\A t \in Tasks :
          (Starts(t) /\ Issued(t).op \in GridOps /\ Destroyed(Issued(t).gridId))
          => /\ returned'.call.result.status = "error"
             /\ returned'.call.result.code = "GRID_DESTROYED"]_vars

(***************************************************************************)
(* C3, amended.  An operation other than create on an identifier whose     *)
(* grid was created and later destroyed fails with GRID_NOT_FOUND, the     *)
(* failure kind of an identifier that was never issued.                    *)
(***************************************************************************)
C3_DestroyedIsNotFound ==
    [][\A t \in Tasks :
          (Starts(t) /\ Issued(t).op \in GridOps /\ Destroyed(Issued(t).gridId))
          => /\ tasks' = tasks
             /\ returned'.call.result.status = "error"
             /\ returned'.call.result.code = "GRID_NOT_FOUND"]_vars

C3_Witness ==
    /\ Idle
    /\ returned.call.op = "updateGridData"
    /\ Destroyed(returned.call.gridId)
    /\ returned.call.result.code = "GRID_NOT_FOUND"

(***************************************************************************)
(* C4.  When destroyGrid(id) returns successfully, getActiveGrids() does   *)
(* not contain id and getGridInfo(id) fails with GRID_NOT_FOUND.           *)
(***************************************************************************)
C4_AfterDestroy ==
    [][\A t \in Tasks, id \in AnyId :
          (Returns(t) /\ returned'.call.op = "destroyGrid"
              /\ returned'.call.gridId = id
              /\ returned'.call.result.status = "ok")
          => /\ id \notin Range(getActiveGrids')
             /\ getGridInfo(id)'.status = "error"
             /\ getGridInfo(id)'.code = "GRID_NOT_FOUND"]_vars

C4_Witness ==
    /\ returned.call.op = "destroyGrid"
    /\ returned.call.result.status = "ok"
    /\ Created(returned.call.gridId)
    /\ grids # <<>>

C6_FailedDestroyStillRemoves ==
    (returned.call.op = "destroyGrid" /\ returned.call.result.code = "DESTROY_FAILED")
    => /\ ~HasGrid(returned.call.gridId)
       /\ ~PageOpen(returned.call.page)

(***************************************************************************)
(* C7.  As claimed: page.close() is issued at most once on the page of a   *)
(* grid, also when two destroyGrid calls on its identifier overlap.        *)
(***************************************************************************)
C7_NoSecondClose ==
    \A p \in DOMAIN pages : pages[p].closes <= 1

(***************************************************************************)
(* C8.  As claimed: a cleanup() that was invoked with two grids live, has  *)
(* destroyed one of them and has returned with the engine closed leaves no *)
(* grid in getActiveGrids(), whatever happened to the destroy of the other.*)
(***************************************************************************)
C8_CleanupLeavesNoGrid ==
    (/\ returned.call.op = "cleanup"
     /\ Len(returned.call.gridIds) = 2
     /\ \E id \in Range(returned.call.gridIds) : Destroyed(id)
     /\ browser = 0)
    => getActiveGrids = <<>>

(***************************************************************************)
(* C9.  cleanup() always returns normally, a failed destroy of one of its  *)
(* grids included; it returns only after attempting to close the engine    *)
(* it holds; and every cleanup() that is started returns.                  *)
(***************************************************************************)
C9_CleanupTerminates ==
    /\ [](returned.call.op = "cleanup" => returned.call.result = Ok(Void))
    /\ [][\A t \in Tasks :
            (Returns(t) /\ returned'.call.op = "cleanup")
            => (tasks[t].pc = "browserClose" \/ browser = 0)]_vars
    /\ \A t \in Tasks : (tasks[t].op = "cleanup") ~> (tasks[t].op # "cleanup")

\* cleanup() has returned although the destroy of one of its grids failed:
\* the grid is still registered, and the engine is closed.
C9_Witness ==
    /\ returned.call.op = "cleanup"
    /\ returned.call.result = Ok(Void)
    /\ calls = 3
    /\ \E id \in Range(getActiveGrids) : pages[instances[id].page].closes = 1
    /\ browser = 0
    /\ ~isInitialized

(***************************************************************************)
(* C10.  A createGrid that fails during the surface setup leaves the       *)
(* registry, the instances and the sink as they were, without an entry for *)
(* the identifier it attempted; while a createGrid is in flight its        *)
(* identifier is in neither; and the page of every registered grid has     *)
(* had its grid created.                                                   *)
(***************************************************************************)
C10_FailedCreateLeavesNoEntry ==
    [][/\ \A t \in Tasks :
            (Returns(t) /\ returned'.call.op = "createGrid"
                /\ returned'.call.result.status = "error")
            => /\ UNCHANGED <<grids, instances, gridStates, emitted>>
               /\ returned'.call.gridId \notin Range(grids')
               /\ returned'.call.gridId \notin DOMAIN instances'
               /\ returned'.call.gridId \notin DOMAIN gridStates'
       /\ \A t \in Tasks :
            (tasks'[t].op = "createGrid" /\ tasks'[t].pc # "idle")
            => /\ tasks'[t].gridId \notin Range(grids')
               /\ tasks'[t].gridId \notin DOMAIN gridStates'
       /\ \A id \in Range(grids') :
            pages'[instances'[id].page].api # "none"]_vars

\* The in-page grid creation reported failure, with another grid registered
\* and mirrored in the sink.
C10_Witness ==
    /\ returned.call.op = "createGrid"
    /\ returned.call.result.code = "GRID_CREATION_FAILED"
    /\ returned.call.page \in DOMAIN pages
    /\ pages[returned.call.page].loaded
    /\ pages[returned.call.page].api = "none"
    /\ ~HasGrid(returned.call.gridId)
    /\ grids # <<>>
    /\ DOMAIN gridStates # {}

(***************************************************************************)
(* C11.  As claimed: when createGrid has failed after browser.newPage()    *)
(* gave it a page, that page is closed by the time createGrid returns.     *)
(***************************************************************************)
C11_FailedCreateReleasesPage ==
    (/\ returned.call.op = "createGrid"
     /\ returned.call.result.status = "error"
     /\ returned.call.page \in DOMAIN pages)
    => ~PageOpen(returned.call.page)

(***************************************************************************)
(* C12.  As claimed: createGrid on an initialised manager fails with       *)
(* INVALID_CONFIG for a config with no column and for a config in which    *)
(* two columns have the same field.                                        *)
(***************************************************************************)
C12_RejectsEmptyOrRepeatedColumns ==
    [][\A t \in Tasks :
          (/\ Starts(t) /\ Issued(t).op = "createGrid"
           /\ isInitialized /\ browser # 0
           /\ \/ Issued(t).config.columnDefs = <<>>
              \/ \E i, j \in 1..Len(Issued(t).config.columnDefs) :
                    /\ i # j
                    /\ Issued(t).config.columnDefs[i].field
                          = Issued(t).config.columnDefs[j].field)
          => /\ tasks' = tasks
             /\ returned'.call.result.status = "error"
             /\ returned'.call.result.code = "INVALID_CONFIG"]_vars

(***************************************************************************)
(* C13.  A createGrid that fails with INVALID_CONFIG returns at once and   *)
(* leaves the engine, the pages, the identifiers issued, the registry, the *)
(* instances and the sink (snapshots and notifications) as they were; and  *)
(* on an initialised manager a config with a column that has no field      *)
(* fails so.                                                               *)
(***************************************************************************)
C13_InvalidConfigChangesNothing ==
    [][\A t \in Tasks :
          /\ (Returns(t) /\ returned'.call.op = "createGrid"
                 /\ returned'.call.result.code = "INVALID_CONFIG")
             => /\ tasks' = tasks
                /\ UNCHANGED <<issued, browser, engines, isInitialized, grids,
                               instances, pages, gridStates, emitted>>
          /\ (Starts(t) /\ Issued(t).op = "createGrid" /\ isInitialized /\ browser # 0
                 /\ \E i \in 1..Len(Issued(t).config.columnDefs) :
                        Issued(t).config.columnDefs[i].field = NoField)
             => /\ tasks' = tasks
                /\ returned'.call.result.code = "INVALID_CONFIG"]_vars

\* An invalid config was rejected while a grid was registered and mirrored.
C13_Witness ==
    /\ returned.call.op = "createGrid"
    /\ returned.call.result.code = "INVALID_CONFIG"
    /\ returned.call.config = ConfigBad
    /\ grids # <<>>
    /\ Len(pages) = 1
    /\ DOMAIN gridStates # {}

(***************************************************************************)
(* C14.  An updateGridData(id, rows) that was accepted for a registered id *)
(* and fails, fails with UPDATE_DATA_FAILED naming id, and its failing     *)
(* leaves the registry, every instance (stored rows and lastUpdated        *)
(* included), every page and the sink as they were, so that whatever could *)
(* be done with id before can be done after.                               *)
(***************************************************************************)
C14_FailedUpdateLeavesEntry ==
    [][\A t \in Tasks :
          (Returns(t) /\ tasks[t].op = "updateGridData"
              /\ returned'.call.result.status = "error")
          => /\ returned'.call.result.code = "UPDATE_DATA_FAILED"
             /\ returned'.call.result.gridId = tasks[t].gridId
             /\ UNCHANGED <<grids, instances, pages, gridStates, emitted>>
             /\ \A id \in AnyId :
                    id = tasks[t].gridId => getGridInstance(id)' = getGridInstance(id)]_vars

\* A failed update of a grid that is still registered, with its first rows.
C14_Witness ==
    /\ returned.call.op = "updateGridData"
    /\ returned.call.result.code = "UPDATE_DATA_FAILED"
    /\ HasGrid(returned.call.gridId)
    /\ getGridInstance(returned.call.gridId).status = "ok"
    /\ instances[returned.call.gridId].config.rowData # returned.call.rowData
    /\ instances[returned.call.gridId].lastUpdated = instances[returned.call.gridId].createdAt
    /\ PageOpen(returned.call.page)

(***************************************************************************)
(* C15.  When updateGridData(id, rows) returns successfully, id is         *)
(* registered and getGridInfo(id).config.rowData is rows; and if the grid  *)
(* of its page is live and has no filter, the page holds exactly rows and  *)
(* the state a getGridState(id) reads next has rowCount = the number of    *)
(* rows passed.  A getGridState that succeeds returns the state of the     *)
(* page as it is.                                                          *)
(***************************************************************************)
C15_UpdateReplacesRows ==
    [][\A t \in Tasks :
          /\ \A id \in GridIds, p \in DOMAIN pages :
                (Returns(t) /\ tasks[t].op = "updateGridData"
                    /\ tasks[t].gridId = id /\ tasks[t].page = p
                    /\ returned'.call.result.status = "ok")
                => /\ HasGrid(id)'
                   /\ getGridInfo(id)'.value.config.rowData = tasks[t].rowData
                   /\ (ApiLive(p)' /\ pages'[p].filterModel = Null)
                      => /\ pages'[p].rowData = tasks[t].rowData
                         /\ gridStateOf(pages'[p]).rowCount = Len(tasks[t].rowData)
          /\ (Returns(t) /\ tasks[t].op = "getGridState"
                 /\ returned'.call.result.status = "ok")
             => returned'.call.result.value = gridStateOf(pages[tasks[t].page])]_vars

\* getGridState has read the row count of a grid without filter whose rows
\* an updateGridData replaced by a larger set.
C15_Witness ==
    /\ returned.call.op = "getGridState"
    /\ returned.call.result.status = "ok"
    /\ HasGrid(returned.call.gridId)
    /\ instances[returned.call.gridId].config.rowData = <<1, 2, 3>>
    /\ instances[returned.call.gridId].lastUpdated > instances[returned.call.gridId].createdAt
    /\ returned.call.result.value.filterState = Null
    /\ returned.call.result.value.rowCount = 3
    /\ calls = MaxCalls

(***************************************************************************)
(* C16.  As claimed: an executeGridMethod whose method has been applied on *)
(* the page and that is reading the displayed row count for the sink       *)
(* returns the method's result, whether that read succeeds or fails.       *)
(***************************************************************************)
C16_SecondaryReadFailureSwallowed ==
    [][\A t \in Tasks :
          (Returns(t) /\ tasks[t].op = "executeGridMethod"
              /\ tasks[t].pc = "displayedRows")
          => /\ returned'.call.result.status = "ok"
             /\ returned'.call.result = tasks[t].result]_vars

\* What the manager without a sink returns to the caller of t for the same
\* answers of the surface: the calls made for the sink alone are the only
\* place where the two can differ, and there the manager without a sink has
\* already returned the result of the method call, held in the task.
NoSinkResult(t) ==
    IF tasks[t].op = "executeGridMethod" /\ tasks[t].pc = "displayedRows"
    THEN tasks[t].result
    ELSE returned'.call.result

(***************************************************************************)
(* C17.  As claimed: with the sink attached every call returns what the    *)
(* manager without a sink returns for the same answers of the surface, and *)
(* the calls made for the sink alone leave the registry and the pages      *)
(* alone.                                                                  *)
(***************************************************************************)
C17_SinkIsAdditive ==
    [][\A t \in Tasks :
          (webSocketManager /\ Returns(t) /\ tasks[t].pc # "idle")
          => /\ returned'.call.result = NoSinkResult(t)
             /\ (tasks[t].pc = "displayedRows"
                    => UNCHANGED <<grids, instances, pages>>)]_vars

\* The operations that only read, and the steps they take: the step in
\* which caller t issues one, and every later step of one in flight.
ReadOps == {"getGridState", "getGridInfo", "getActiveGrids", "generateGridSummary"}
ReadStep(t) ==
    \/ Starts(t) /\ Issued(t).op \in ReadOps
    \/ tasks[t].op \in ReadOps /\ tasks'[t] # tasks[t]

(***************************************************************************)
(* C18.  No step of getGridState, getGridInfo, getActiveGrids or           *)
(* generateGridSummary changes the registry, an instance (stored config,   *)
(* rows, timestamps), a page (rows, filter, column state), the engine, or  *)
(* the sink (snapshots and notifications).                                 *)
(***************************************************************************)
C18_ReadsNeverMutate ==
    [][\A t \in Tasks :
          ReadStep(t)
          => UNCHANGED <<issued, browser, engines, isInitialized, webSocketManager,
                         grids, instances, pages, gridStates, emitted>>]_vars

\* A summary was read from a filtered grid with the sink attached, after a
\* getGridState of the same grid.
C18_Witness ==
    /\ returned.call.op = "generateGridSummary"
    /\ returned.call.result.status = "ok"
    /\ returned.call.result.value.totalRows = 1
    /\ webSocketManager
    /\ HasGrid(returned.call.gridId)
    /\ instances[returned.call.gridId].config = ConfigB
    /\ pages[returned.call.page].rowData = <<1, 2>>
    /\ pages[returned.call.page].filterModel = FilterOne
    /\ returned.call.gridId \in DOMAIN gridStates

(***************************************************************************)
(* C19.  As claimed: a getGridState that succeeds on a grid with a filter  *)
(* set reports that filter, rowCount = the number of all rows of the grid  *)
(* and displayedRowCount = the number of rows that pass the filter.        *)
(***************************************************************************)
C19_RowCountIsTotal ==
    [][\A t \in Tasks, p \in DOMAIN pages :
          (Returns(t) /\ tasks[t].op = "getGridState" /\ tasks[t].page = p
              /\ returned'.call.result.status = "ok"
              /\ pages[p].filterModel # Null)
          => /\ returned'.call.result.value.filterState = pages[p].filterModel
             /\ returned'.call.result.value.rowCount = Len(pages[p].rowData)
             /\ returned'.call.result.value.displayedRowCount = Len(Displayed(pages[p]))]_vars

(***************************************************************************)
(* C20.  exportGridData(id, format) on a registered grid with a format     *)
(* other than csv and excel returns at once (no call of the page is made)  *)
(* with INVALID_EXPORT_FORMAT, leaving the pages and the sink as they      *)
(* were; with csv or excel it goes on to the page, and when it succeeds    *)
(* the format of its result is the format requested.                       *)
(***************************************************************************)
C20_FormatCheckedBeforeSurface ==
    [][\A t \in Tasks :
          /\ (Starts(t) /\ Issued(t).op = "exportGridData"
                 /\ getGridInstance(Issued(t).gridId).status = "ok")
             => IF Issued(t).format \in {"csv", "excel"}
                THEN tasks'[t].pc = "evaluate"
                ELSE /\ tasks' = tasks
                     /\ returned'.call.result.status = "error"
                     /\ returned'.call.result.code = "INVALID_EXPORT_FORMAT"
                     /\ UNCHANGED <<pages, gridStates, emitted, grids, instances>>
          /\ (Returns(t) /\ returned'.call.op = "exportGridData"
                 /\ returned'.call.result.status = "ok")
             => /\ returned'.call.format \in {"csv", "excel"}
                /\ returned'.call.result.value.format = returned'.call.format]_vars

\* 'pdf' was refused for a live grid with the sink attached.
C20_Witness ==
    /\ returned.call.op = "exportGridData"
    /\ returned.call.format = "pdf"
    /\ returned.call.result.code = "INVALID_EXPORT_FORMAT"
    /\ HasGrid(returned.call.gridId)
    /\ ApiLive(instances[returned.call.gridId].page)
    /\ webSocketManager

\* The operations that name one grid, and the steps of such an operation on
\* grid a taken by caller t: the step that issues it, and every later step.
PerGridOps == GridOps \cup {"createGrid"}
StepOn(t, a) ==
    \/ Starts(t) /\ Issued(t).op \in PerGridOps /\ Issued(t).gridId = a
    \/ /\ tasks[t].op \in PerGridOps /\ tasks[t].gridId = a
       /\ tasks'[t] # tasks[t]

C22_InitializeIsIdempotent ==
    [][\A t \in Tasks :
          (Starts(t) /\ Issued(t).op = "initialize" /\ isInitialized)
          => /\ tasks' = tasks
             /\ returned'.call.result = Ok(Void)
             /\ UNCHANGED <<browser, engines, isInitialized, grids, instances,
                            pages, gridStates, emitted>>]_vars

\* A second initialize() has returned with a grid registered and still the
\* one engine.
C22_Witness ==
    /\ returned.call.op = "initialize"
    /\ returned.call.result = Ok(Void)
    /\ grids # <<>>
    /\ Len(engines) = 1
    /\ browser = 1
    /\ isInitialized

(***************************************************************************)
(* C23.  createGrid on a manager that is not initialised fails at once     *)
(* with NOT_INITIALIZED, opens no page, mints no identifier and adds no    *)
(* registry entry; and the manager is not initialised before any           *)
(* initialize() has succeeded, stays so when an initialize() fails with    *)
(* BROWSER_INIT_FAILED, and is so when cleanup() returns.                  *)
(***************************************************************************)
C23_CreateNeedsInitialize ==
    [][/\ \A t \in Tasks :
            (Starts(t) /\ Issued(t).op = "createGrid" /\ ~isInitialized)
            => /\ tasks' = tasks
               /\ returned'.call.result.status = "error"
               /\ returned'.call.result.code = "NOT_INITIALIZED"
               /\ UNCHANGED <<pages, grids, instances, issued, engines,
                              browser, isInitialized>>
       /\ engines = <<>> => ~isInitialized /\ browser = 0
       /\ \A t \in Tasks :
            (/\ Returns(t)
             /\ returned'.call.op = "initialize"
             /\ returned'.call.result.status = "error")
            => /\ returned'.call.result.code = "BROWSER_INIT_FAILED"
               /\ UNCHANGED <<isInitialized, browser, engines>>
       /\ \A t \in Tasks :
            (Returns(t) /\ returned'.call.op = "cleanup") => ~isInitialized']_vars

\* createGrid was refused after a cleanup() whose engine close failed: the
\* engine handle is still set, the flag is not.
C23_Witness ==
    /\ returned.call.op = "createGrid"
    /\ returned.call.result.status = "error"
    /\ returned.call.result.code = "NOT_INITIALIZED"
    /\ browser = 1
    /\ engines = <<"live">>
    /\ ~isInitialized
    /\ pages = <<>>

\* The failure kinds of the manager, and those raised by a check of the
\* manager's own state, which have no underlying exception.
FailureKinds ==
    {"BROWSER_INIT_FAILED", "NOT_INITIALIZED", "INVALID_CONFIG",
     "GRID_CREATION_FAILED", "UPDATE_DATA_FAILED", "METHOD_EXECUTION_FAILED",
     "INVALID_EXPORT_FORMAT", "EXPORT_FAILED", "GET_STATE_FAILED",
     "DESTROY_FAILED", "GRID_NOT_FOUND", "GRID_DESTROYED",
     "SUMMARY_GENERATION_FAILED"}
StateCheckKinds == {"NOT_INITIALIZED", "GRID_NOT_FOUND", "GRID_DESTROYED"}

(***************************************************************************)
(* C24.  Every operation that has returned either succeeded or failed with *)
(* a GridManagerError: a failure kind, the grid identifier of the call     *)
(* (the minted one for createGrid) when there is one, and the underlying   *)
(* exception unless the failure is a check of the manager's own state; and *)
(* a tool handler turns the outcome into a success payload or a structured *)
(* error payload with the same kind, identifier and cause.                 *)
(***************************************************************************)
C24_FailuresAreTyped ==
    returned.call.op # "none"
    => LET r == returned.call.result
       IN /\ r.status \in {"ok", "error"}
          /\ r.status = "error"
             => /\ r.code \in FailureKinds
                /\ r.gridId = returned.call.gridId
                /\ r.cause = (r.code \notin StateCheckKinds)
                /\ ToolHandler(r).isError
                /\ ~ToolHandler(r).success
                /\ ToolHandler(r).data =
                       [code |-> r.code, gridId |-> r.gridId, cause |-> r.cause]
          /\ r.status = "ok"
             => ToolHandler(r) = [success |-> TRUE, isError |-> FALSE, data |-> r.value]

\* executeGridMethod failed on the surface and the caller got
\* METHOD_EXECUTION_FAILED with the grid's identifier and the cause.
C24_Witness ==
    /\ returned.call.op = "executeGridMethod"
    /\ returned.call.result.status = "error"
    /\ returned.call.result.code = "METHOD_EXECUTION_FAILED"
    /\ returned.call.result.gridId \in GridIds
    /\ returned.call.result.cause

\* What the sink pushed to a socket: its inbox without the replies to its own
\* request_grid_data messages.
Pushed(inbox) == SelectSeq(inbox, LAMBDA m : m.channel # "grid_data")
\* The last broadcast about grid `id` is that of its removal.
RemovedLast(id) ==
    \E i \in 1..Len(emitted) :
        /\ emitted[i].gridId = id
        /\ emitted[i].type = "grid_destroyed"
        /\ \A j \in (i + 1)..Len(emitted) : emitted[j].gridId # id

(***************************************************************************)
(* C25.  The first message to an observer that connects is the set of the  *)
(* snapshots the sink holds at that moment: exactly one for every grid     *)
(* mirrored, none for a grid whose removal was the last thing broadcast    *)
(* about it.  After it, what the sink pushes to the observer is exactly    *)
(* the broadcasts made since it connected, in order; nothing broadcast     *)
(* before is sent to it.                                                   *)
(***************************************************************************)
C25_ObserverGetsSnapshotThenNews ==
    [][/\ \A o \in Observers :
            (~sockets[o].connected /\ sockets'[o].connected)
            => LET first == sockets'[o].inbox[1]
               IN /\ Len(sockets'[o].inbox) = 1
                  /\ first.channel = "grid_states"
                  /\ \A id \in DOMAIN gridStates :
                        {st \in first.states : st.id = id} = {gridStates[id]}
                  /\ \A st \in first.states :
                        st.id \in DOMAIN gridStates /\ ~RemovedLast(st.id)
       /\ \A o \in Observers :
            sockets'[o].connected
            => /\ sockets'[o].joinedAt <= Len(emitted')
               /\ Pushed(sockets'[o].inbox)
                    = <<sockets'[o].inbox[1]>>
                        \o SubSeq(emitted', sockets'[o].joinedAt + 1, Len(emitted'))
               /\ sockets[o].connected
                  => sockets'[o].inbox[1] = sockets[o].inbox[1]]_vars

\* An observer connected after broadcasts had been made, was sent one
\* snapshot, and has since received the broadcasts of a later operation.
C25_Witness ==
    \E o \in Observers :
        /\ sockets[o].connected
        /\ sockets[o].joinedAt > 0
        /\ sockets[o].inbox[1].states # {}
        /\ Len(Pushed(sockets[o].inbox)) > 1
        /\ Len(emitted) > sockets[o].joinedAt

(***************************************************************************)
(* C26.  When the process has exited through handleShutdown and a browser  *)
(* engine is still alive, the call of gridManager.cleanup() that           *)
(* handleShutdown makes has returned (and failed to close the engine).     *)
(* The code does not keep this: a rejected webServer.stop() skips the      *)
(* call, and a further signal exits while the call is in flight.           *)
(***************************************************************************)
C26_ShutdownRunsCleanup ==
    (process.pc = "exited" /\ \E e \in DOMAIN engines : engines[e] = "live")
    => process.cleanup = "returned"

(***************************************************************************)
(* C27.  When the summary reader's read of the rendered rows ends, by      *)
(* failing or by giving nothing back, for a grid that is registered and    *)
(* not destroyed, the reader returns a complete summary, over the rendered *)
(* rows or over the rows stored with the instance.  The code does not keep *)
(* this when the read fails: the whole summary fails.                      *)
(***************************************************************************)
C27_SummaryFallsBackToStoredRows ==
    [][\A t \in Tasks, id \in GridIds :
          (/\ tasks[t].op = "generateGridSummary"
           /\ tasks[t].pc = "getRenderedNodes"
           /\ tasks[t].gridId = id
           /\ Returns(t)
           /\ getGridInstance(id).status = "ok")
          => /\ returned'.call.result.status = "ok"
             /\ returned'.call.result.value
                  \in {gridSummaryOf(id, Displayed(pages[instances[id].page]),
                                     instances[id].config),
                       gridSummaryOf(id, instances[id].config.rowData,
                                     instances[id].config)}]_vars

\* The type the 80% rule gives with an inclusive threshold.
inclusiveType(values) ==
    LET sample == SubSeq(values, 1, IF Len(values) < 10 THEN Len(values) ELSE 10)
        share(kind) == CountKind(sample, kind) * 10
    IN  IF share("number") >= 8 * Len(sample) THEN "number"
        ELSE IF share("boolean") >= 8 * Len(sample) THEN "boolean"
        ELSE IF share("datestring") >= 8 * Len(sample) THEN "date"
        ELSE "text"

(***************************************************************************)
(* C28.  For a column without a declared type and with a non-null value,   *)
(* the type in the statistics is number when at least 80% of the first     *)
(* ten non-null values are numbers, else boolean when at least 80% are     *)
(* booleans, else date when at least 80% parse as dates, else text;        *)
(* exactly 80% counts.  The code does not keep this at exactly 80%.        *)
(***************************************************************************)
C28_InferenceThresholdInclusive ==
    (/\ analysis.stats.totalRows # -1
     /\ "type" \notin DOMAIN analysis.columnDefs[1]
     /\ Len(nonNullValues(analysis.rowData, "x")) > 0)
    => analysis.stats.columnStats[1].type
         = inclusiveType(nonNullValues(analysis.rowData, "x"))

\* The rows of a dataset whose cell in column `field` is null or undefined,
\* those whose cell is a number, and the sum of the numbers in its first n rows.
NullRows(data, field) ==
    {r \in 1..Len(data) : Cell(data[r], field).k \in {"null", "undefined"}}
NumberRows(data, field) ==
    {r \in 1..Len(data) : Cell(data[r], field).k = "number"}
RECURSIVE NumberSum(_, _, _)
NumberSum(data, field, n) ==
    IF n = 0 THEN 0
    ELSE NumberSum(data, field, n - 1)
           + (IF n \in NumberRows(data, field) THEN data[n][field].v ELSE 0)
RECURSIVE TotalNulls(_, _, _)
TotalNulls(data, columnDefs, n) ==
    IF n = 0 THEN 0
    ELSE TotalNulls(data, columnDefs, n - 1)
           + Cardinality(NullRows(data, columnDefs[n].field))

(***************************************************************************)
(* C29.  In the statistics of a dataset of N rows, every column's          *)
(* nullCount is the number of rows whose cell is null or undefined; a      *)
(* column of type number that has numbers gets min, max and mean over its  *)
(* numbers, the null cells left out (10, null, 30 gives type number,       *)
(* nullCount 1, min 10, max 30, mean 20); and, when there is a cell at     *)
(* all, completeness is 100 * (1 - nulls / (N * columns)) rounded to two   *)
(* decimals.                                                               *)
(***************************************************************************)
C29_NullCountsAndCompleteness ==
    analysis.stats.totalRows # -1
    => LET data == analysis.rowData
           defs == analysis.columnDefs
           cs == analysis.stats.columnStats
           cells == Len(data) * Len(defs)
           nulls == TotalNulls(data, defs, Len(defs))
       IN /\ analysis.stats.totalRows = Len(data)
          /\ Len(cs) = Len(defs)
          /\ \A i \in 1..Len(defs) :
                LET numbers == NumberRows(data, defs[i].field)
                IN /\ cs[i].nullCount = Cardinality(NullRows(data, defs[i].field))
                   /\ (cs[i].type = "number" /\ numbers # {})
                      => /\ Len(cs[i].numeric) = 1
                         /\ cs[i].numeric[1].min
                              = MinOf({data[r][defs[i].field].v : r \in numbers})
                         /\ cs[i].numeric[1].max
                              = MaxOf({data[r][defs[i].field].v : r \in numbers})
                         /\ cs[i].numeric[1].count = Cardinality(numbers)
                         /\ cs[i].numeric[1].sum = NumberSum(data, defs[i].field, Len(data))
          /\ (data = <<[x |-> Num(10)], [x |-> NullV], [x |-> Num(30)]>>
              /\ defs = <<Col("x")>>)
             => /\ cs[1].type = "number"
                /\ cs[1].nullCount = 1
                /\ cs[1].numeric[1].min = 10
                /\ cs[1].numeric[1].max = 30
                /\ cs[1].numeric[1].sum = 20 * cs[1].numeric[1].count
          /\ cells > 0
             => /\ 2 * cells * analysis.stats.completeness - 20000 * (cells - nulls) <= cells
                /\ 20000 * (cells - nulls) - 2 * cells * analysis.stats.completeness <= cells

\* The statistics of the rows 10, null, 30 have been computed: two of three
\* cells are filled, completeness 66.67.
C29_Witness ==
    /\ analysis.rowData = <<[x |-> Num(10)], [x |-> NullV], [x |-> Num(30)]>>
    /\ analysis.columnDefs = <<Col("x")>>
    /\ analysis.stats.totalRows = 3
    /\ analysis.stats.columnStats[1].nullCount = 1
    /\ analysis.stats.completeness = 6667

(***************************************************************************)
(* C30.  For every grid that is registered, not destroyed and whose grid   *)
(* is live on its page, when no operation on it (and no cleanup) is in     *)
(* flight, the rows on the page, the rows stored with the instance and,    *)
(* where the sink mirrors the grid, the rows in the sink's snapshot are    *)
(* the same.  The code does not keep this for rows set through             *)
(* executeGridMethod.                                                      *)
(***************************************************************************)
C30_RowsAgreeEverywhere ==
    \A id \in DOMAIN instances :
        (/\ HasGrid(id)
         /\ ~instances[id].isDestroyed
         /\ ApiLive(instances[id].page)
         /\ \A t \in Tasks :
               \/ tasks[t].pc = "idle"
               \/ tasks[t].op \in PerGridOps \cup {"generateGridSummary"}
                  /\ tasks[t].gridId # id)
        => /\ pages[instances[id].page].rowData = instances[id].config.rowData
           /\ id \in DOMAIN gridStates
              => gridStates[id].data = instances[id].config.rowData

(***************************************************************************)
(* C31.  The sink's mirror catches up with the live grid: for every grid   *)
(* that is registered, not destroyed, live on its page and mirrored by the *)
(* sink, when no operation at all is in flight the mirrored filter model   *)
(* is the page's filter model and the mirrored rows are the page's rows.   *)
(* The code does not keep this: clearing the filter, or changing rows      *)
(* through executeGridMethod, is never reported to the sink.               *)
(***************************************************************************)
C31_MirrorCatchesUp ==
    \A id \in DOMAIN instances :
        (/\ Idle
         /\ HasGrid(id)
         /\ ~instances[id].isDestroyed
         /\ ApiLive(instances[id].page)
         /\ id \in DOMAIN gridStates)
        => /\ gridStates[id].filters = pages[instances[id].page].filterModel
           /\ gridStates[id].data = pages[instances[id].page].rowData

(***************************************************************************)
(* C32.  The sink holds a snapshot for an identifier only if the           *)
(* identifier is a key of the registry: once destroyGrid(id) has deleted   *)
(* the entry and removed the snapshot, no notification of an operation on  *)
(* id that was in flight puts a snapshot for id back.  Checked whenever    *)
(* the sink is attached, before the first createGrid or later.             *)
(***************************************************************************)
C32_NoSnapshotWithoutEntry ==
    \A id \in DOMAIN gridStates : HasGrid(id)

\* An executeGridMethod or updateGridData on id that was in flight when
\* destroyGrid(id) removed the snapshot has returned, after the removal.
C32_Witness ==
    /\ webSocketManager
    /\ returned.call.op \in {"executeGridMethod", "updateGridData"}
    /\ returned.call.result.status = "error"
    /\ returned.call.result.code \in {"METHOD_EXECUTION_FAILED", "UPDATE_DATA_FAILED"}
    /\ Destroyed(returned.call.gridId)
    /\ ~HasGrid(returned.call.gridId)
    /\ \E i \in 1..Len(emitted) :
          emitted[i] = Event("grid_event", "grid_destroyed", returned.call.gridId)
    /\ returned.call.gridId \notin DOMAIN gridStates

(***************************************************************************)
(* C33.  Every entry of the registry that is not marked destroyed has a    *)
(* page that is open and whose grid has not been destroyed.  Stated for    *)
(* the states in which no operation is in flight and the engine of the     *)
(* page is still running, so that neither a destroyGrid under way nor a    *)
(* cleanup that closed the browser is counted.  The code does not keep     *)
(* this: a destroyGrid whose page.close() fails has already destroyed the  *)
(* grid and leaves the entry as it was.                                    *)
(***************************************************************************)
C33_LiveEntryHasLiveSurface ==
    \A id \in DOMAIN instances :
        (/\ Idle
         /\ HasGrid(id)
         /\ ~instances[id].isDestroyed
         /\ engines[pages[instances[id].page].engine] = "live")
        => ApiLive(instances[id].page)

(***************************************************************************)
(* C34.  At most one browser engine is running at any time, and a running  *)
(* engine is the one the manager refers to: overlapping initialize() calls *)
(* start a single engine.  The code does not keep this: initialize tests   *)
(* isInitialized only before its await, so two overlapping calls both      *)
(* launch, and the second assignment to this.browser drops the first       *)
(* engine.                                                                 *)
(***************************************************************************)
C34_OneEngine ==
    \A e \in DOMAIN engines : engines[e] = "live" => browser = e

\* What the sink sent during this step.
Sent == SubSeq(emitted', Len(emitted) + 1, Len(emitted'))
\* The broadcasts of one updateGridState followed by one grid event.
Notified(type, id) ==
    <<Event("grid_state_updated", "", id), Event("grid_event", type, id)>>

(***************************************************************************)
(* C35.  With the sink attached, an executeGridMethod that returns         *)
(* normally has notified the sink once with `filtered` exactly when the    *)
(* method is setFilterModel and its first argument is present, once with   *)
(* `sorted` exactly when the method is applyColumnState and its first      *)
(* argument is present, and not at all for any other method; one that      *)
(* fails notifies nothing, and no notification is sent before the return.  *)
(***************************************************************************)
C35_NotificationByMethod ==
    [][\A t \in Tasks :
        /\ (Starts(t) /\ Issued(t).op = "executeGridMethod") => Sent = <<>>
        /\ (tasks[t].op = "executeGridMethod" /\ tasks'[t] # tasks[t]) =>
             LET call == tasks[t]
                 ok == tasks'[t].pc = "idle" /\ returned'.call.result.status = "ok"
             IN  IF ok /\ webSocketManager /\ call.method = "setFilterModel"
                    /\ call.param # Null
                 THEN /\ Sent = Notified("grid_filtered", call.gridId)
                      /\ gridStates'[call.gridId].filters = call.param
                 ELSE IF ok /\ webSocketManager /\ call.method = "applyColumnState"
                         /\ call.param # Null
                 THEN /\ Sent = Notified("grid_sorted", call.gridId)
                      /\ gridStates'[call.gridId].sorting = call.param
                 ELSE Sent = <<>> /\ gridStates' = gridStates]_vars

\* A setFilterModel with a filter has returned normally and its
\* notification is the last thing the sink sent.
C35_Witness ==
    /\ webSocketManager
    /\ returned.call.op = "executeGridMethod"
    /\ returned.call.method = "setFilterModel"
    /\ returned.call.param = FilterOne
    /\ returned.call.result.status = "ok"
    /\ Len(emitted) >= 2
    /\ emitted[Len(emitted)] = Event("grid_event", "grid_filtered", returned.call.gridId)
    /\ gridStates[returned.call.gridId].filters = FilterOne

\* The field of a snapshot that a notification of the given type writes.
FieldOf(type) ==
    CASE type = "grid_updated" -> "data"
      [] type = "grid_filtered" -> "filters"
      [] type = "grid_sorted" -> "sorting"
SnapshotFields == {"id", "configRef", "data", "filters", "sorting", "createdAt"}

(***************************************************************************)
(* C36.  The sink inserts or merges.  A data, filter or sort notification  *)
(* for a grid that has a snapshot changes that field and lastUpdated and   *)
(* nothing else of the snapshot; for a grid without a snapshot it inserts  *)
(* one with no config, no rows and the current time as createdAt and       *)
(* lastUpdated, apart from the field notified; the snapshots of the other  *)
(* grids stay as they are.  Whatever the sink broadcasts in a step, for    *)
(* any of its six notifications, is appended to the inbox of every         *)
(* observer connected at that time.                                        *)
(***************************************************************************)
C36_InsertOrMerge ==
    [][/\ \A o \in DOMAIN sockets :
            sockets[o].connected => sockets'[o].inbox = sockets[o].inbox \o Sent
       /\ \A id \in DOMAIN gridStates' :
          \A type \in {"grid_updated", "grid_filtered", "grid_sorted"} :
            Sent = Notified(type, id) =>
              /\ gridStates'[id].lastUpdated = now
              /\ gridStates'[id].id = id
              /\ IF id \in DOMAIN gridStates
                 THEN \A f \in SnapshotFields \ {FieldOf(type)} :
                          gridStates'[id][f] = gridStates[id][f]
                 ELSE /\ gridStates'[id].configRef = NoId
                      /\ gridStates'[id].createdAt = now
                      /\ \A f \in {"filters", "sorting"} \ {FieldOf(type)} :
                            gridStates'[id][f] = Null
                      /\ FieldOf(type) # "data" => gridStates'[id].data = <<>>
              /\ DOMAIN gridStates' = DOMAIN gridStates \cup {id}
              /\ \A other \in DOMAIN gridStates \ {id} :
                    gridStates'[other] = gridStates[other]]_vars

\* Two observers are connected and both have just been sent the sort
\* notification of a grid, whose snapshot keeps its config, rows and
\* createdAt from an earlier time.
C36_Witness ==
    \E id \in DOMAIN gridStates :
        /\ gridStates[id].sorting # Null
        /\ gridStates[id].configRef = id
        /\ gridStates[id].data # <<>>
        /\ gridStates[id].createdAt < gridStates[id].lastUpdated
        /\ \A o \in DOMAIN sockets :
              /\ sockets[o].connected
              /\ Len(sockets[o].inbox) >= 3
              /\ sockets[o].inbox[Len(sockets[o].inbox)]
                    = Event("grid_event", "grid_sorted", id)
        /\ Cardinality(DOMAIN sockets) = 2

\* r lists exactly the entries of the column state cs whose sort is set, each
\* once, by ascending sort index, entries of equal index in the order of cs.
IsSortStateOf(r, cs) ==
    \E pos \in [1..Len(r) -> 1..Len(cs)] :
        /\ \A k \in 1..Len(r) : r[k] = cs[pos[k]]
        /\ {pos[k] : k \in 1..Len(r)} = {i \in 1..Len(cs) : cs[i].sort # "none"}
        /\ \A k, l \in 1..Len(r) :
              k < l => \/ cs[pos[k]].sortIndex < cs[pos[l]].sortIndex
                       \/ /\ cs[pos[k]].sortIndex = cs[pos[l]].sortIndex
                          /\ pos[k] < pos[l]
\* The applyColumnState argument gives a sort to a column of the page.
SetsSort(param, page) ==
    \E j \in 1..Len(param.state), i \in 1..Len(page.columnState) :
        /\ param.state[j].sort # "none"
        /\ param.state[j].colId = page.columnState[i].colId

(***************************************************************************)
(* C37.  The sortState that getGridState(id) returns holds exactly the     *)
(* columns of the grid's column state whose sort is set, each once,        *)
(* ordered by ascending sort index, ties in column-state order; and once   *)
(* an applyColumnState that sets a sort on a column has returned, the      *)
(* sortState read from the grid is not empty.                              *)
(***************************************************************************)
C37_SortStateOrdered ==
    [][\A t \in Tasks :
        /\ (tasks[t].op = "getGridState" /\ tasks'[t].pc = "idle"
            /\ returned'.call.result.status = "ok")
           => /\ IsSortStateOf(returned'.call.result.value.sortState,
                               pages[tasks[t].page].columnState)
              /\ returned'.call.result.value.columnState
                    = pages[tasks[t].page].columnState
        /\ (tasks[t].op = "executeGridMethod" /\ tasks[t].method = "applyColumnState"
            /\ tasks'[t].pc = "idle" /\ returned'.call.result.status = "ok"
            /\ SetsSort(tasks[t].param, pages[tasks[t].page]))
           => gridStateOf(pages'[tasks[t].page]).sortState # <<>>]_vars

\* getGridState has returned a sortState of three columns of which the
\* second and the third have the same sort index, lower than the first's.
C37_Witness ==
    /\ returned.call.op = "getGridState"
    /\ returned.call.result.status = "ok"
    /\ Len(returned.call.result.value.sortState) = 3
    /\ returned.call.result.value.sortState[1].colId = "y"
    /\ returned.call.result.value.sortState[2].colId = "z"
    /\ returned.call.result.value.sortState[3].colId = "x"
    /\ returned.call.result.value.sortState[1].sortIndex
          = returned.call.result.value.sortState[2].sortIndex

(***************************************************************************)
(* C38.  Setup completes without a web server: when the tools and          *)
(* resources have been registered and no web server is running (it is      *)
(* disabled, or its start failed), setupMcpServer has returned the server  *)
(* to main, which goes on to connect the transport.  The code does not     *)
(* keep this: after the registration setupMcpServer reads                  *)
(* webServer.getUrl() and throws when webServer is not assigned.           *)
(***************************************************************************)
C38_StartsWithoutWebServer ==
    (process.registered /\ ~process.webServer) => process.mcpServer

(***************************************************************************)
(* C39.  The process exits with status 0 only through a shutdown that      *)
(* follows a successful start; a failed startup ends in a non-zero status. *)
(* The code does not keep this: main's catch awaits handleShutdown, which  *)
(* itself ends in process.exit(0).                                         *)
(***************************************************************************)
C39_ZeroExitOnlyAfterStart ==
    (process.pc = "exited" /\ process.exitCode = 0) => process.started

====
